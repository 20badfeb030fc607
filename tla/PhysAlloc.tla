------------------------------ MODULE PhysAlloc ------------------------------
(***************************************************************************)
(* The physical page allocator: memory/phys_allocator.c with the bitmap of *)
(* utils/bitmap.c and get_memory_size of memory/memory.c.                   *)
(*                                                                         *)
(* The bitmap is the set of the indexes whose bit is 1.  Bits that lie past *)
(* the bitmap's last byte are real memory that nobody zeroed: bm_get reads  *)
(* them when a run crosses the end, and reserve_page sets them for entries  *)
(* above the counted memory.  They start with arbitrary values (slack).     *)
(* The counters are uint64_t; they are kept here as the integers of which   *)
(* the C values are the residues modulo 2^64.                               *)
(***************************************************************************)
EXTENDS Integers, FiniteSets, FiniteSetsExt

CONSTANTS PageSize,             \* 4096
          MemMaps,              \* the memory maps the boot loader may pass
          MaxCount,             \* bound on the pages of one request_pages
          MaxIndex              \* bound on the page indexes

NULL == 0
Idx  == 0..MaxIndex
Types == {"USABLE", "RESERVED", "OTHER"}    \* OTHER: every other LIMINE_MEMMAP_*

VARIABLES memmap,               \* the boot loader's answer
          initialized,
          bm_bits,              \* page_bitmap.size * 8
          slack,                \* bits past the bitmap that were set at boot
          mem,                  \* [bitmap, free, used, reserved]
          held,                 \* the runs granted and not given back
          last                  \* the last request: [count, ret]

vars == <<memmap, initialized, bm_bits, slack, mem, held, last>>

NoRequest == [count |-> 0, ret |-> NULL]

-----------------------------------------------------------------------------
\* Pages and the memory map.

PageIndex(addr) == addr \div PageSize

\* The pages that lock_pages, reserve_pages and free_pages visit for a range
\* of bytes: the count is rounded up, the address is not aligned down first.
PagesOf(base, bytes) ==
    PageIndex(base) .. PageIndex(base) + (bytes + PageSize - 1) \div PageSize - 1

get_memory_size(map) ==
    MapThenSumSet(LAMBDA i : map[i].length,
                  {i \in DOMAIN map : map[i].type # "RESERVED"})

bitmap_size(map) == get_memory_size(map) \div (PageSize * 8) + 1

\* Base of the first longest usable entry, NULL when none is usable.
LargestUsable(map) ==
    LET usable == {i \in DOMAIN map : map[i].type = "USABLE" /\ map[i].length > 0}
        longest == {i \in usable : \A j \in usable : map[j].length <= map[i].length}
    IN  IF usable = {} THEN NULL
        ELSE map[CHOOSE i \in longest : \A j \in longest : i <= j].base

BitmapPages(map) == PagesOf(LargestUsable(map), bitmap_size(map))

ReservedPages(map) ==
    UNION {PagesOf(map[i].base, map[i].length) :
              i \in {j \in DOMAIN map : map[j].type = "OTHER"}}

\* Every page read_memory_map withholds from the callers.
BootPages(map) == BitmapPages(map) \cup ReservedPages(map) \cup {0}

ASSUME PhysAllocAssumption ==
    /\ PageSize \in Nat \ {0}
    /\ MaxCount \in Nat
    /\ MaxIndex \in Nat
    /\ \A map \in MemMaps :
          /\ get_memory_size(map) \in Nat
          /\ BootPages(map) \subseteq Idx
          /\ bitmap_size(map) * 8 + MaxCount <= MaxIndex + 1

-----------------------------------------------------------------------------
\* The page operations, on a set of pages at once: a page whose bit already
\* has the wanted value is skipped, its bytes are not counted again.

Bytes(S) == PageSize * Cardinality(S)

\* Faulty: a page whose bit is already set is counted again.
MutLockPages(m, S) ==
    [bitmap |-> m.bitmap \cup S, free |-> m.free - Bytes(S),
     used |-> m.used + Bytes(S), reserved |-> m.reserved]

lock_pages(m, S) ==
    LET c == Bytes(S \ m.bitmap)
    IN  [bitmap |-> m.bitmap \cup S, free |-> m.free - c,
         used |-> m.used + c, reserved |-> m.reserved]

reserve_pages(m, S) ==
    LET c == Bytes(S \ m.bitmap)
    IN  [bitmap |-> m.bitmap \cup S, free |-> m.free - c,
         used |-> m.used, reserved |-> m.reserved + c]

\* Faulty: the last page of the range is left out.
MutFreePages(m, S) ==
    LET old == {p \in S \cap m.bitmap : \E q \in S : q > p}
    IN  [bitmap |-> m.bitmap \ old, free |-> m.free + Bytes(old),
         used |-> m.used - Bytes(old), reserved |-> m.reserved]

free_pages(m, S) ==
    LET c == Bytes(S \cap m.bitmap)
    IN  [bitmap |-> m.bitmap \ S, free |-> m.free + c,
         used |-> m.used - c, reserved |-> m.reserved]

\* Faulty: only the first page of the run is looked at.
MutRunStarts(n) == {i \in 0..bm_bits - 1 : i \notin mem.bitmap}

\* Every index at which the scan of request_pages may stop: inside the bitmap,
\* followed by count clear bits.  The scan stops at the least.
RunStarts(n) == {i \in 0..bm_bits - 1 :
                    \A k \in i..i + n - 1 : k \notin mem.bitmap}

-----------------------------------------------------------------------------
Init == /\ memmap \in MemMaps
        /\ initialized = FALSE
        /\ bm_bits = 0
        /\ slack = {}
        /\ mem = [bitmap |-> {}, free |-> 0, used |-> 0, reserved |-> 0]
        /\ held = {}
        /\ last = NoRequest

\* The body of read_memory_map after its guard.
Setup(map, dirt) ==
    LET m0 == [bitmap |-> dirt, free |-> get_memory_size(map), used |-> 0, reserved |-> 0]
    IN  lock_pages(reserve_pages(lock_pages(m0, BitmapPages(map)), ReservedPages(map)), {0})

\* Faulty: the bitmap's size in bytes is taken for its size in bits.
MutReadMemoryMapBytes ==
    /\ ~initialized
    /\ initialized' = TRUE
    /\ bm_bits' = bitmap_size(memmap)
    /\ slack' \in SUBSET (bm_bits'..MaxIndex)
    /\ mem' = Setup(memmap, slack')
    /\ last' = NoRequest
    /\ UNCHANGED <<memmap, held>>

\* Faulty: a second call is not refused.
MutReadMemoryMap ==
    /\ initialized' = TRUE
    /\ bm_bits' = bitmap_size(memmap) * 8
    /\ slack' \in SUBSET (bm_bits'..MaxIndex)
    /\ mem' = Setup(memmap, slack')
    /\ last' = NoRequest
    /\ UNCHANGED <<memmap, held>>

ReadMemoryMap ==
    /\ ~initialized
    /\ initialized' = TRUE
    /\ bm_bits' = bitmap_size(memmap) * 8
    /\ slack' \in SUBSET (bm_bits'..MaxIndex)
    /\ mem' = Setup(memmap, slack')
    /\ last' = NoRequest
    /\ UNCHANGED <<memmap, held>>

\* request_pages(n), and request_page() for n = 1.  A run may end past the
\* bitmap; n = 0 is "granted" at index 0, which the caller sees as NULL.
RequestPages(n) ==
    /\ \/ /\ RunStarts(n) = {}
          /\ last' = [count |-> n, ret |-> NULL]
          /\ UNCHANGED <<mem, held>>
       \/ \E i \in RunStarts(n) :
          /\ \A j \in RunStarts(n) : i <= j
          /\ mem' = lock_pages(mem, i..i + n - 1)
          /\ held' = held \cup ({i..i + n - 1} \ {{}})
          /\ last' = [count |-> n, ret |-> i * PageSize]
    /\ UNCHANGED <<memmap, initialized, bm_bits, slack>>

\* The owner of a run gives it back with the count it asked for.
FreePages(B) ==
    /\ B \in held
    /\ mem' = free_pages(mem, B)
    /\ held' = held \ {B}
    /\ last' = NoRequest
    /\ UNCHANGED <<memmap, initialized, bm_bits, slack>>

Next == \/ ReadMemoryMap
        \/ \E n \in 0..MaxCount : RequestPages(n)
        \/ \E B \in held : FreePages(B)

Spec == Init /\ [][Next]_vars

-----------------------------------------------------------------------------
\* The variables have the types of the code's globals.
TypeOK ==
    /\ memmap \in MemMaps
    /\ initialized \in BOOLEAN
    /\ bm_bits = IF initialized THEN bitmap_size(memmap) * 8 ELSE 0
    /\ slack \subseteq Idx
    /\ mem \in [bitmap : SUBSET Idx, free : Int, used : Int, reserved : Int]
    /\ held \subseteq SUBSET Idx
    /\ last \in [count : 0..MaxCount, ret : Nat]

Granted == UNION held
Withheld == IF initialized THEN BootPages(memmap) ELSE {}

\* No page has two owners, and no owner has the bitmap's own pages, a page of a
\* reserved entry or page 0, whatever was requested and given back in between.
GrantsDisjoint ==
    /\ \A B, C \in held : B # C => B \cap C = {}
    /\ Granted \cap Withheld = {}

\* A bit is set exactly when its page is withheld or has an owner (or was dirt
\* past the bitmap): free_pages and lock_pages forget no page and leak none.
BitmapExact == mem.bitmap = Withheld \cup slack \cup Granted

\* The three counters account for all the memory the map counts, used_memory
\* covers exactly the locked and granted pages and reserved_memory the reserved
\* ones, although pages of overlapping entries are visited more than once.
CountersMatchBitmap ==
    initialized =>
        /\ mem.free + mem.used + mem.reserved = get_memory_size(memmap)
        /\ mem.used + mem.reserved = PageSize * Cardinality(mem.bitmap \ slack)

\* A request answers NULL only when no run of that length is left, so a caller
\* may read NULL as "out of memory": page 0, whose address is NULL, is never
\* granted.  (A request for 0 pages also answers NULL.)
NullOnlyWhenExhausted ==
    last.count > 0 /\ last.ret = NULL => RunStarts(last.count) = {}

-----------------------------------------------------------------------------
\* The allocator implements exclusive page ownership.
Ownership == INSTANCE PageOwnership
    WITH Page <- Idx,
         opened <- initialized,
         pool <- IF initialized THEN Idx \ (BootPages(memmap) \cup slack) ELSE {},
         available <- IF initialized THEN Idx \ mem.bitmap ELSE {},
         owned <- held

\* Every behaviour of the bitmap allocator is one of exclusive page ownership.
ImplementsOwnership == Ownership!Spec
=============================================================================
