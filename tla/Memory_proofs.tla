--------------------------- MODULE Memory_proofs ---------------------------
(***************************************************************************)
(* Pages and page tables.  For every page size, every set of memory maps and *)
(* every bound, the page allocator has the invariants MCPhysAlloc checks on  *)
(* small maps, and it implements PageOwnership.  Page tables form a tree and  *)
(* lead every address to what it was last mapped to, for any memory, indices  *)
(* and addresses, as long as pages last.                                     *)
(***************************************************************************)
EXTENDS PhysAlloc, Paging, FiniteSetTheorems, WellFoundedInduction, TLAPS

-----------------------------------------------------------------------------
\* The physical page allocator.

MemType == [bitmap : SUBSET Idx, free : Int, used : Int, reserved : Int]

\* Every set of page indexes is finite.
LEMMA IdxFinite == \A S \in SUBSET Idx : IsFiniteSet(S) /\ Cardinality(S) \in Nat
<1>1. IsFiniteSet(Idx)
  BY FS_Interval, PhysAllocAssumption DEF Idx
<1> QED BY <1>1, FS_Subset, FS_CardinalityType

\* The cardinality of a disjoint union of sets of page indexes is the sum.
LEMMA CardDisjoint ==
  ASSUME NEW S \in SUBSET Idx, NEW T \in SUBSET Idx, S \cap T = {}
  PROVE  Cardinality(S \cup T) = Cardinality(S) + Cardinality(T)
<1>1. IsFiniteSet(S) /\ IsFiniteSet(T) BY IdxFinite
<1>2. Cardinality(S \cup T) = Cardinality(S) + Cardinality(T) - Cardinality(S \cap T)
  BY <1>1, FS_Union
<1>3. Cardinality(S) \in Nat /\ Cardinality(T) \in Nat BY IdxFinite
<1>4. Cardinality(S \cap T) = 0 BY FS_EmptySet
<1> HIDE FS_EmptySet
<1> QED BY <1>2, <1>3, <1>4

\* The bytes of a set of pages, and of two disjoint ones together.
LEMMA PageBytes ==
  /\ \A S \in SUBSET Idx : Bytes(S) \in Int
  /\ \A S, T \in SUBSET Idx : S \cap T = {} => Bytes(S \cup T) = Bytes(S) + Bytes(T)
<1>1. \A a, b, p \in Nat : p * a \in Int /\ p * (a + b) = p * a + p * b
  OBVIOUS
<1>2. PageSize \in Nat BY PhysAllocAssumption
<1>3. \A S \in SUBSET Idx : Cardinality(S) \in Nat BY IdxFinite
<1>4. \A S \in SUBSET Idx : Bytes(S) \in Int BY <1>1, <1>2, <1>3 DEF Bytes
<1>5. ASSUME NEW S \in SUBSET Idx, NEW T \in SUBSET Idx, S \cap T = {}
      PROVE  Bytes(S \cup T) = Bytes(S) + Bytes(T)
  <2>1. Cardinality(S \cup T) = Cardinality(S) + Cardinality(T) BY <1>5, CardDisjoint
  <2> QED BY <1>1, <1>2, <1>3, <2>1 DEF Bytes
<1> QED BY <1>4, <1>5

\* What the three counters owe to the bitmap, whose bits in D are not counted.
Balanced(m, D, total) ==
    /\ m.free + m.used + m.reserved = total
    /\ m.used + m.reserved = Bytes(m.bitmap \ D)

\* lock_pages sets exactly the bits of S and keeps the counters balanced.
LEMMA LockPages ==
  ASSUME NEW m \in MemType, NEW S \in SUBSET Idx
  PROVE  /\ lock_pages(m, S) \in MemType
         /\ lock_pages(m, S).bitmap = m.bitmap \cup S
         /\ \A D, total : D \subseteq m.bitmap /\ Balanced(m, D, total)
                             => Balanced(lock_pages(m, S), D, total)
<1> DEFINE c == Bytes(S \ m.bitmap)
           r == lock_pages(m, S)
<1>0. m.bitmap \in SUBSET Idx /\ m.free \in Int /\ m.used \in Int /\ m.reserved \in Int
  BY DEF MemType
<1>1. c \in Int BY <1>0, PageBytes
<1>2. /\ r \in MemType /\ r.bitmap = m.bitmap \cup S /\ r.free = m.free - c
      /\ r.used = m.used + c /\ r.reserved = m.reserved
  BY <1>0, <1>1 DEF lock_pages, MemType
<1>3. ASSUME NEW D, NEW total, D \subseteq m.bitmap, Balanced(m, D, total)
      PROVE  Balanced(r, D, total)
  <2>1. r.bitmap \ D = (m.bitmap \ D) \cup (S \ m.bitmap) BY <1>2, <1>3
  <2>2. Bytes(m.bitmap \ D) \in Int /\ Bytes(r.bitmap \ D) = Bytes(m.bitmap \ D) + c
    BY <1>0, <2>1, PageBytes
  <2> QED BY <1>0, <1>1, <1>2, <1>3, <2>2 DEF Balanced
<1> QED BY <1>2, <1>3

\* reserve_pages does the same with reserved_memory in place of used_memory.
LEMMA ReservePages ==
  ASSUME NEW m \in MemType, NEW S \in SUBSET Idx
  PROVE  /\ reserve_pages(m, S) \in MemType
         /\ reserve_pages(m, S).bitmap = m.bitmap \cup S
         /\ \A D, total : D \subseteq m.bitmap /\ Balanced(m, D, total)
                             => Balanced(reserve_pages(m, S), D, total)
<1> DEFINE c == Bytes(S \ m.bitmap)
           r == reserve_pages(m, S)
<1>0. m.bitmap \in SUBSET Idx /\ m.free \in Int /\ m.used \in Int /\ m.reserved \in Int
  BY DEF MemType
<1>1. c \in Int BY <1>0, PageBytes
<1>2. /\ r \in MemType /\ r.bitmap = m.bitmap \cup S /\ r.free = m.free - c
      /\ r.used = m.used /\ r.reserved = m.reserved + c
  BY <1>0, <1>1 DEF reserve_pages, MemType
<1>3. ASSUME NEW D, NEW total, D \subseteq m.bitmap, Balanced(m, D, total)
      PROVE  Balanced(r, D, total)
  <2>1. r.bitmap \ D = (m.bitmap \ D) \cup (S \ m.bitmap) BY <1>2, <1>3
  <2>2. Bytes(m.bitmap \ D) \in Int /\ Bytes(r.bitmap \ D) = Bytes(m.bitmap \ D) + c
    BY <1>0, <2>1, PageBytes
  <2> QED BY <1>0, <1>1, <1>2, <1>3, <2>2 DEF Balanced
<1> QED BY <1>2, <1>3

\* free_pages clears exactly the bits of S; the counters stay balanced when S
\* was set and counted.
LEMMA FreePagesLemma ==
  ASSUME NEW m \in MemType, NEW S \in SUBSET Idx
  PROVE  /\ free_pages(m, S) \in MemType
         /\ free_pages(m, S).bitmap = m.bitmap \ S
         /\ \A D, total : S \subseteq m.bitmap \ D /\ Balanced(m, D, total)
                             => Balanced(free_pages(m, S), D, total)
<1> DEFINE c == Bytes(S \cap m.bitmap)
           r == free_pages(m, S)
<1>0. m.bitmap \in SUBSET Idx /\ m.free \in Int /\ m.used \in Int /\ m.reserved \in Int
  BY DEF MemType
<1>1. c \in Int BY <1>0, PageBytes
<1>2. /\ r \in MemType /\ r.bitmap = m.bitmap \ S /\ r.free = m.free + c
      /\ r.used = m.used - c /\ r.reserved = m.reserved
  BY <1>0, <1>1 DEF free_pages, MemType
<1>3. ASSUME NEW D, NEW total, S \subseteq m.bitmap \ D, Balanced(m, D, total)
      PROVE  Balanced(r, D, total)
  <2>1. m.bitmap \ D = (r.bitmap \ D) \cup (S \cap m.bitmap) BY <1>2, <1>3
  <2>2. Bytes(r.bitmap \ D) \in Int /\ Bytes(m.bitmap \ D) = Bytes(r.bitmap \ D) + c
    BY <1>0, <1>2, <2>1, PageBytes
  <2> QED BY <1>0, <1>1, <1>2, <1>3, <2>2 DEF Balanced
<1> QED BY <1>2, <1>3

-----------------------------------------------------------------------------
\* What read_memory_map leaves: exactly the withheld pages and the dirt.
LEMMA SetupLemma ==
  ASSUME NEW map \in MemMaps, NEW dirt \in SUBSET Idx
  PROVE  /\ Setup(map, dirt) \in MemType
         /\ Setup(map, dirt).bitmap = BootPages(map) \cup dirt
         /\ Balanced(Setup(map, dirt), dirt, get_memory_size(map))
<1> DEFINE m0 == [bitmap |-> dirt, free |-> get_memory_size(map), used |-> 0, reserved |-> 0]
           m1 == lock_pages(m0, BitmapPages(map))
           m2 == reserve_pages(m1, ReservedPages(map))
           m3 == lock_pages(m2, {0})
           total == get_memory_size(map)
<1>0. total \in Nat /\ BootPages(map) \subseteq Idx BY PhysAllocAssumption
<1>1. m0 \in MemType /\ m0.bitmap = dirt BY <1>0 DEF MemType
<1>2. Balanced(m0, dirt, total)
  <2>1. Cardinality(dirt \ dirt) = 0
    <3>1. dirt \ dirt = {} OBVIOUS
    <3> QED BY <3>1, FS_EmptySet
  <2>2. \A p \in Nat : p * 0 = 0 OBVIOUS
  <2>3. Bytes(dirt \ dirt) = 0 BY <2>1, <2>2, PhysAllocAssumption DEF Bytes
  <2> QED BY <1>0, <2>3 DEF Balanced
<1>3. /\ BitmapPages(map) \in SUBSET Idx
      /\ ReservedPages(map) \in SUBSET Idx
      /\ {0} \in SUBSET Idx
  BY <1>0 DEF BootPages
<1> HIDE DEF m0, total
<1>4. /\ m1 \in MemType /\ m1.bitmap = dirt \cup BitmapPages(map)
      /\ Balanced(m1, dirt, total)
  BY <1>1, <1>2, <1>3, LockPages
<1> HIDE DEF m1
<1>5. /\ m2 \in MemType /\ m2.bitmap = dirt \cup BitmapPages(map) \cup ReservedPages(map)
      /\ Balanced(m2, dirt, total)
  BY <1>3, <1>4, ReservePages
<1> HIDE DEF m2
<1>6. /\ m3 \in MemType /\ m3.bitmap = dirt \cup BootPages(map)
      /\ Balanced(m3, dirt, total)
  BY <1>3, <1>5, LockPages DEF BootPages
<1>7. m3 = Setup(map, dirt) BY DEF m0, m1, m2, Setup
<1> QED BY <1>6, <1>7 DEF total

\* The bitmap of a memory map has a whole number of bits and leaves room for
\* a run past its end.
LEMMA BitmapBits ==
  ASSUME NEW map \in MemMaps
  PROVE  bitmap_size(map) * 8 \in Nat /\ bitmap_size(map) * 8 + MaxCount <= MaxIndex + 1
<1>1. \A a \in Nat, b \in Nat \ {0} : a \div (b * 8) + 1 \in Nat
  <2>1. \A a \in Nat, b \in Nat \ {0} : a \div b \in Nat OBVIOUS
  <2>2. \A b \in Nat \ {0} : b * 8 \in Nat \ {0} OBVIOUS
  <2> QED BY <2>1, <2>2
<1>2. bitmap_size(map) \in Nat BY <1>1, PhysAllocAssumption DEF bitmap_size
<1> QED BY <1>2, PhysAllocAssumption

\* Nothing is granted or set before boot, and dirt is never granted.
BootInv == /\ ~initialized => held = {} /\ slack = {} /\ mem.bitmap = {}
           /\ {} \notin held
           /\ slack \cap Granted = {}

IInv == /\ TypeOK /\ BootInv
        /\ GrantsDisjoint /\ BitmapExact /\ CountersMatchBitmap /\ NullOnlyWhenExhausted

\* A run the scan stops at lies inside the pages and has no bit set.
LEMMA RunIsClear ==
  ASSUME TypeOK, NEW n \in 0..MaxCount, NEW i \in RunStarts(n)
  PROVE  /\ i \in Nat /\ initialized
         /\ i..i + n - 1 \in SUBSET Idx
         /\ (i..i + n - 1) \cap mem.bitmap = {}
         /\ n > 0 => i \notin mem.bitmap /\ i \in i..i + n - 1
<1>1. /\ bm_bits \in Nat
      /\ bm_bits > 0 => initialized /\ bm_bits + MaxCount <= MaxIndex + 1
  BY BitmapBits DEF TypeOK
<1>2. i \in 0..bm_bits - 1 /\ \A k \in i..i + n - 1 : k \notin mem.bitmap
  BY DEF RunStarts
<1>3. MaxCount \in Nat /\ MaxIndex \in Nat /\ n \in Nat /\ n <= MaxCount BY PhysAllocAssumption
<1> QED BY <1>1, <1>2, <1>3 DEF Idx

\* Before boot the invariant holds.
THEOREM InitInv == Init => IInv
<1> SUFFICES ASSUME Init PROVE IInv OBVIOUS
<1>1. MaxIndex \in Nat /\ MaxCount \in Nat BY PhysAllocAssumption
<1>2. TypeOK
  <2>1. mem \in MemType BY DEF Init, MemType
  <2>2. last \in [count : 0..MaxCount, ret : Nat] BY <1>1 DEF Init, NoRequest, NULL
  <2> QED BY <2>1, <2>2 DEF Init, TypeOK, MemType
<1>3. BootInv /\ GrantsDisjoint /\ BitmapExact
  BY DEF Init, BootInv, Granted, Withheld, GrantsDisjoint, BitmapExact
<1>4. CountersMatchBitmap /\ NullOnlyWhenExhausted
  BY DEF Init, CountersMatchBitmap, NullOnlyWhenExhausted, NoRequest
<1> QED BY <1>2, <1>3, <1>4 DEF IInv

\* read_memory_map establishes the invariant, whatever lies past the bitmap.
LEMMA ReadMemoryMapInv == IInv /\ ReadMemoryMap => IInv'
<1> SUFFICES ASSUME IInv, ReadMemoryMap PROVE IInv' OBVIOUS
<1> USE DEF IInv, ReadMemoryMap
<1>1. memmap \in MemMaps /\ memmap' = memmap /\ held = {} /\ held' = {} /\ ~initialized
  BY DEF TypeOK, BootInv
<1>2. MaxIndex \in Nat /\ MaxCount \in Nat BY PhysAllocAssumption
<1>3. bm_bits' \in Nat BY <1>1, BitmapBits
<1>4. slack' \in SUBSET Idx BY <1>2, <1>3 DEF Idx
<1>5. /\ mem' \in MemType
      /\ mem'.bitmap = BootPages(memmap) \cup slack'
      /\ Balanced(mem', slack', get_memory_size(memmap))
  BY <1>1, <1>4, SetupLemma
<1>6. TypeOK'
  <2>1. last' \in [count : 0..MaxCount, ret : Nat] BY <1>2 DEF NoRequest, NULL
  <2> QED BY <1>1, <1>4, <1>5, <2>1 DEF TypeOK, MemType
<1>7. Granted' = {} /\ Withheld' = BootPages(memmap)
  BY <1>1 DEF Granted, Withheld
<1>8. BootInv' /\ GrantsDisjoint' /\ BitmapExact'
  BY <1>1, <1>5, <1>7 DEF BootInv, GrantsDisjoint, BitmapExact
<1>9. CountersMatchBitmap' /\ NullOnlyWhenExhausted'
  BY <1>1, <1>5 DEF CountersMatchBitmap, Balanced, NullOnlyWhenExhausted, NoRequest, Bytes
<1> QED BY <1>6, <1>8, <1>9

\* request_pages preserves the invariant, granted or refused.
LEMMA RequestPagesInv == ASSUME IInv, NEW n \in 0..MaxCount, RequestPages(n) PROVE IInv'
<1> USE DEF IInv
<1>0. UNCHANGED <<memmap, initialized, bm_bits, slack>> /\ Withheld' = Withheld
  BY DEF RequestPages, Withheld
<1>1. CASE /\ RunStarts(n) = {}
           /\ last' = [count |-> n, ret |-> NULL]
           /\ UNCHANGED <<mem, held>>
  <2>1. TypeOK' BY <1>0, <1>1 DEF TypeOK, NULL
  <2>2. BootInv' /\ GrantsDisjoint' /\ BitmapExact' /\ CountersMatchBitmap'
    BY <1>0, <1>1 DEF BootInv, Granted, GrantsDisjoint, BitmapExact, CountersMatchBitmap
  <2>3. NullOnlyWhenExhausted' BY <1>0, <1>1 DEF NullOnlyWhenExhausted, RunStarts
  <2> QED BY <2>1, <2>2, <2>3
<1>2. ASSUME NEW i \in RunStarts(n),
             mem' = lock_pages(mem, i..i + n - 1),
             held' = held \cup ({i..i + n - 1} \ {{}}),
             last' = [count |-> n, ret |-> i * PageSize]
      PROVE  IInv'
  <2> DEFINE B == i..i + n - 1
  <2>1. /\ i \in Nat /\ initialized
        /\ B \in SUBSET Idx
        /\ B \cap mem.bitmap = {}
        /\ n > 0 => i \notin mem.bitmap /\ i \in B
    BY RunIsClear
  <2> HIDE DEF B
  <2>2. mem \in MemType BY DEF TypeOK, MemType
  <2>3. /\ mem' \in MemType /\ mem'.bitmap = mem.bitmap \cup B
        /\ slack \subseteq mem.bitmap
        /\ Balanced(mem', slack, get_memory_size(memmap))
    <3>1. mem' = lock_pages(mem, B) BY <1>2 DEF B
    <3>2. slack \subseteq mem.bitmap BY DEF BitmapExact
    <3>3. Balanced(mem, slack, get_memory_size(memmap))
      BY <2>1 DEF CountersMatchBitmap, Balanced, Bytes
    <3> QED BY <2>1, <2>2, <3>1, <3>2, <3>3, LockPages
  <2>4. held' = held \cup ({B} \ {{}}) /\ Granted' = Granted \cup B
    BY <1>2 DEF B, Granted
  <2>5. TypeOK'
    <3>1. i * PageSize \in Nat
      <4>1. \A a, b \in Nat : a * b \in Nat OBVIOUS
      <4> QED BY <2>1, <4>1, PhysAllocAssumption
    <3>2. last' \in [count : 0..MaxCount, ret : Nat] BY <1>2, <3>1
    <3>3. held' \subseteq SUBSET Idx BY <2>1, <2>4 DEF TypeOK
    <3> QED BY <1>0, <2>3, <3>2, <3>3 DEF TypeOK, MemType
  <2>6. BootInv' BY <1>0, <2>1, <2>3, <2>4 DEF BootInv
  <2>7. GrantsDisjoint'
    <3>1. \A C \in held : C \cap B = {} BY <2>1 DEF BitmapExact, Granted
    <3>2. B \cap Withheld = {} BY <2>1 DEF BitmapExact
    <3> QED BY <1>0, <2>4, <3>1, <3>2 DEF GrantsDisjoint
  <2>8. BitmapExact' BY <1>0, <2>3, <2>4 DEF BitmapExact
  <2>9. CountersMatchBitmap' BY <1>0, <2>3 DEF CountersMatchBitmap, Balanced, Bytes
  <2>10. NullOnlyWhenExhausted'
    <3>1. ASSUME n > 0 PROVE i * PageSize # 0
      <4>1. 0 \in mem.bitmap BY <2>1 DEF BitmapExact, Withheld, BootPages
      <4>2. i \in Nat \ {0} BY <2>1, <3>1, <4>1
      <4>3. \A a, b \in Nat \ {0} : a * b # 0 OBVIOUS
      <4> QED BY <4>2, <4>3, PhysAllocAssumption
    <3>2. last'.count = n /\ last'.ret = i * PageSize BY <1>2
    <3> QED BY <3>1, <3>2 DEF NullOnlyWhenExhausted, NULL
  <2> QED BY <2>5, <2>6, <2>7, <2>8, <2>9, <2>10
<1> QED BY <1>1, <1>2 DEF RequestPages

\* free_pages preserves the invariant when an owner gives its run back.
LEMMA FreePagesInv == ASSUME IInv, NEW B \in held, FreePages(B) PROVE IInv'
<1> USE DEF IInv, FreePages
<1>0. UNCHANGED <<memmap, initialized, bm_bits, slack>> /\ Withheld' = Withheld
  BY DEF Withheld
<1>1. MaxCount \in Nat BY PhysAllocAssumption
<1>2. /\ mem \in MemType /\ B \in SUBSET Idx /\ initialized
      /\ B \subseteq Granted /\ B \subseteq mem.bitmap \ slack
  BY DEF TypeOK, MemType, BootInv, BitmapExact, Granted
<1>3. /\ mem' \in MemType /\ mem'.bitmap = mem.bitmap \ B
      /\ Balanced(mem', slack, get_memory_size(memmap))
  <2>1. Balanced(mem, slack, get_memory_size(memmap))
    BY <1>2 DEF CountersMatchBitmap, Balanced, Bytes
  <2> QED BY <1>2, <2>1, FreePagesLemma
<1>4. held' = held \ {B} /\ Granted' = Granted \ B
  <2>1. \A C \in held : C # B => C \cap B = {} BY DEF GrantsDisjoint
  <2> QED BY <2>1 DEF Granted
<1>5. TypeOK'
  <2>1. last' \in [count : 0..MaxCount, ret : Nat] BY <1>1 DEF NoRequest, NULL
  <2> QED BY <1>0, <1>3, <1>4, <2>1 DEF TypeOK, MemType
<1>6. BootInv' /\ GrantsDisjoint' BY <1>0, <1>2, <1>3, <1>4 DEF BootInv, GrantsDisjoint
<1>7. BitmapExact'
  <2>1. B \cap Withheld = {} /\ B \cap slack = {} BY <1>2 DEF GrantsDisjoint
  <2> QED BY <1>0, <1>3, <1>4, <2>1 DEF BitmapExact
<1>8. CountersMatchBitmap' /\ NullOnlyWhenExhausted'
  BY <1>0, <1>3 DEF CountersMatchBitmap, Balanced, Bytes, NullOnlyWhenExhausted, NoRequest
<1> QED BY <1>5, <1>6, <1>7, <1>8

\* Every operation of the allocator preserves the invariant.
THEOREM StepInv == IInv /\ [Next]_vars => IInv'
<1> SUFFICES ASSUME IInv, [Next]_vars PROVE IInv' OBVIOUS
<1>1. CASE ReadMemoryMap BY <1>1, ReadMemoryMapInv
<1>2. CASE \E n \in 0..MaxCount : RequestPages(n) BY <1>2, RequestPagesInv
<1>3. CASE \E B \in held : FreePages(B) BY <1>3, FreePagesInv
<1>4. CASE UNCHANGED vars
  BY <1>4 DEF vars, IInv, TypeOK, BootInv, GrantsDisjoint, BitmapExact,
     CountersMatchBitmap, NullOnlyWhenExhausted, Granted, Withheld, RunStarts
<1> QED BY <1>1, <1>2, <1>3, <1>4 DEF Next

\* The inductive invariant holds in every reachable state.
THEOREM SpecInv == Spec => []IInv
BY InitInv, StepInv, PTL DEF Spec

\* Type correctness of the allocator's globals, for every memory map.
THEOREM TypeCorrect == Spec => []TypeOK
<1>1. IInv => TypeOK BY DEF IInv
<1> QED BY <1>1, SpecInv, PTL

\* No page is ever granted twice, and none that read_memory_map withheld.
THEOREM ExclusiveGrants == Spec => []GrantsDisjoint
<1>1. IInv => GrantsDisjoint BY DEF IInv
<1> QED BY <1>1, SpecInv, PTL

\* The bitmap is exact: no page is forgotten by a lock or leaked by a free.
THEOREM ExactBitmap == Spec => []BitmapExact
<1>1. IInv => BitmapExact BY DEF IInv
<1> QED BY <1>1, SpecInv, PTL

\* The three counters agree with the bitmap and with the size of the memory.
THEOREM ExactCounters == Spec => []CountersMatchBitmap
<1>1. IInv => CountersMatchBitmap BY DEF IInv
<1> QED BY <1>1, SpecInv, PTL

\* A NULL answer to a request means that no run of that length is left.
THEOREM NullIsExhaustion == Spec => []NullOnlyWhenExhausted
<1>1. IInv => NullOnlyWhenExhausted BY DEF IInv
<1> QED BY <1>1, SpecInv, PTL

-----------------------------------------------------------------------------
\* Every step of the bitmap allocator is a step of PageOwnership or a stutter.
LEMMA StepRefines == IInv /\ [Next]_vars => [Ownership!Next]_(Ownership!vars)
<1> SUFFICES ASSUME IInv, [Next]_vars PROVE [Ownership!Next]_(Ownership!vars) OBVIOUS
<1> DEFINE pool == IF initialized THEN Idx \ (BootPages(memmap) \cup slack) ELSE {}
           available == IF initialized THEN Idx \ mem.bitmap ELSE {}
<1>0. mem \in MemType /\ held \subseteq SUBSET Idx /\ memmap \in MemMaps
  BY DEF IInv, TypeOK, MemType
<1>1. CASE ReadMemoryMap
  <2>1. /\ ~initialized /\ initialized' = TRUE /\ held' = {} /\ memmap' = memmap
        /\ IInv'
    BY <1>1, ReadMemoryMapInv DEF ReadMemoryMap, IInv, BootInv
  <2>2. pool' = available' /\ 0 \notin pool' /\ pool' \subseteq Idx
    BY <2>1 DEF IInv, BitmapExact, Withheld, Granted, BootPages
  <2>3. Ownership!Open BY <2>1, <2>2 DEF Ownership!Open
  <2> QED BY <2>3 DEF Ownership!Next
<1>2. ASSUME NEW n \in 0..MaxCount, RequestPages(n)
      PROVE  [Ownership!Next]_(Ownership!vars)
  <2>0. UNCHANGED <<memmap, initialized, slack>> BY <1>2 DEF RequestPages
  <2>1. CASE UNCHANGED <<mem, held>> BY <2>0, <2>1 DEF Ownership!vars
  <2>2. ASSUME NEW i \in RunStarts(n),
               mem' = lock_pages(mem, i..i + n - 1),
               held' = held \cup ({i..i + n - 1} \ {{}})
        PROVE  [Ownership!Next]_(Ownership!vars)
    <3> DEFINE B == i..i + n - 1
    <3>1. /\ initialized /\ B \in SUBSET Idx /\ B \cap mem.bitmap = {}
      BY RunIsClear DEF IInv
    <3>2. \A p, q \in B : p..q \subseteq B
      <4>1. i \in Int /\ n \in Int BY RunIsClear, PhysAllocAssumption DEF IInv
      <4> QED BY <4>1
    <3>3. mem'.bitmap = mem.bitmap \cup B BY <1>0, <2>2, <3>1, LockPages
    <3> HIDE DEF B
    <3>4. held' = held \cup ({B} \ {{}}) BY <2>2 DEF B
    <3>5. CASE B = {}
      <4>1. mem'.bitmap = mem.bitmap /\ held' = held BY <3>3, <3>4, <3>5
      <4> QED BY <2>0, <4>1 DEF Ownership!vars
    <3>6. CASE B # {}
      <4>1. B \in (SUBSET available) \ {{}} /\ available' = available \ B
        BY <2>0, <3>1, <3>3, <3>6
      <4>2. Ownership!Consecutive(B) BY <3>2 DEF Ownership!Consecutive
      <4>3. Ownership!Grant BY <2>0, <3>4, <3>6, <4>1, <4>2 DEF Ownership!Grant
      <4> QED BY <4>3 DEF Ownership!Next
    <3> QED BY <3>5, <3>6
  <2> QED BY <1>2, <2>1, <2>2 DEF RequestPages
<1>3. ASSUME NEW B \in held, FreePages(B) PROVE [Ownership!Next]_(Ownership!vars)
  <2>1. UNCHANGED <<memmap, initialized, slack>> /\ held' = held \ {B} BY <1>3 DEF FreePages
  <2>2. mem'.bitmap = mem.bitmap \ B BY <1>0, <1>3, FreePagesLemma DEF FreePages
  <2>3. initialized /\ B \subseteq Idx BY <1>0 DEF IInv, BootInv
  <2>4. available' = available \cup B BY <2>1, <2>2, <2>3
  <2>5. Ownership!Reclaim BY <2>1, <2>4 DEF Ownership!Reclaim
  <2> QED BY <2>5 DEF Ownership!Next
<1>4. CASE UNCHANGED vars BY <1>4 DEF vars, Ownership!vars
<1> QED BY <1>1, <1>2, <1>3, <1>4 DEF Next

\* The allocator of phys_allocator.c implements exclusive page ownership: its
\* callers may reason with PageOwnership and forget the bitmap.
THEOREM Refinement == Spec => ImplementsOwnership
<1>1. Init => Ownership!Init BY DEF Init, Ownership!Init
<1> QED BY <1>1, InitInv, StepInv, StepRefines, PTL DEF Spec, ImplementsOwnership, Ownership!Spec

-----------------------------------------------------------------------------
\* Paging.

Entry == Page \cup Frames \cup {NONE}
Memory == [Page -> [Index -> Entry]]

\* The tables of a memory that hold links to tables: the root, and two levels below it.
First(m) == {m[kernel_pml4][k] : k \in Index} \ {NONE}
Second(m) == (UNION {{m[t][k] : k \in Index} : t \in First(m)}) \ {NONE}
Upper(m) == {kernel_pml4} \cup First(m) \cup Second(m)

\* Every link leads to a page of its own, which is neither the allocator's nor the root.
Tree(m, left) ==
    /\ m \in Memory
    /\ left \subseteq Page \ {NoPage, kernel_pml4}
    /\ \A t \in Upper(m), k \in Index : m[t][k] # NONE =>
          /\ m[t][k] \in Page \ (left \cup {NoPage, kernel_pml4})
          /\ \A u \in Upper(m), j \in Index : m[u][j] = m[t][k] => u = t /\ j = k

\* The way down from the root: A1 and A2 are tables of links, A3 one of leaves.
A1(m, v) == m[kernel_pml4][v[1]]
A2(m, v) == m[A1(m, v)][v[2]]
A3(m, v) == m[A2(m, v)][v[3]]
A4(m, v) == m[A3(m, v)][v[4]]
Complete(m, v) == A1(m, v) # NONE /\ A2(m, v) # NONE /\ A3(m, v) # NONE
Walk(m, v) == IF Complete(m, v) THEN A4(m, v) ELSE NONE

PagingInv ==
    /\ exhausted \in BOOLEAN
    /\ ~exhausted => /\ Tree(memory, free)
                     /\ want \in [VPages -> Frames \cup {NONE}]
                     /\ \A v \in VPages : Walk(memory, v) = want[v]

-----------------------------------------------------------------------------
LEMMA Constants == /\ NoPage \in Page /\ kernel_pml4 \in Page /\ NoPage # kernel_pml4
                   /\ NONE \notin Page /\ NONE \notin Frames /\ NoPage \notin Frames
                   /\ NPages \in Nat
BY PagingAssumption DEF Page, NoPage, kernel_pml4

\* The levels of a tree have no table in common.
LEMMA LevelsApart ==
  ASSUME NEW m, NEW left, Tree(m, left)
  PROVE  /\ Upper(m) \subseteq Page \ left
         /\ kernel_pml4 \notin First(m) /\ kernel_pml4 \notin Second(m)
         /\ \A t \in First(m) : t \notin Second(m)
<1>1. /\ \A t \in First(m) : t # NONE /\ \E k \in Index : t = m[kernel_pml4][k]
      /\ \A t \in Second(m) : t # NONE /\ \E u \in First(m), k \in Index : t = m[u][k]
  BY DEF First, Second
<1>2. /\ kernel_pml4 \in Upper(m) /\ First(m) \subseteq Upper(m) /\ Second(m) \subseteq Upper(m)
  BY DEF Upper
<1>3. \A t \in First(m) \cup Second(m) : t \in Page \ (left \cup {NoPage, kernel_pml4})
  BY <1>1, <1>2 DEF Tree
<1>4. kernel_pml4 \in Page \ left
  BY Constants DEF Tree
<1>5. \A t \in First(m) : t \notin Second(m)
  <2> SUFFICES ASSUME NEW t \in First(m), t \in Second(m) PROVE FALSE
    OBVIOUS
  <2>1. PICK k \in Index : t = m[kernel_pml4][k] /\ t # NONE
    BY <1>1
  <2>2. PICK u \in First(m), j \in Index : t = m[u][j]
    BY <1>1
  <2>3. u = kernel_pml4
    BY <1>2, <2>1, <2>2 DEF Tree
  <2> QED  BY <1>3, <2>3
<1> QED  BY <1>3, <1>4, <1>5 DEF Upper

\* The way down passes through the levels.
LEMMA WayDown ==
  ASSUME NEW m, NEW left, Tree(m, left), NEW v \in [1..4 -> Index]
  PROVE  /\ A1(m, v) # NONE => A1(m, v) \in First(m)
         /\ A1(m, v) # NONE /\ A2(m, v) # NONE => A2(m, v) \in Second(m)
         /\ Complete(m, v) => A3(m, v) \in Page \ (left \cup Upper(m))
<1>1. v[1] \in Index /\ v[2] \in Index /\ v[3] \in Index /\ v[4] \in Index
  OBVIOUS
<1>2. A1(m, v) # NONE => A1(m, v) \in First(m)
  BY <1>1 DEF A1, First
<1>3. A1(m, v) # NONE /\ A2(m, v) # NONE => A2(m, v) \in Second(m)
  BY <1>1, <1>2 DEF A2, Second
<1>4. ASSUME Complete(m, v) PROVE A3(m, v) \in Page \ (left \cup Upper(m))
  <2>1. A2(m, v) \in Second(m) /\ A2(m, v) \in Upper(m) /\ A3(m, v) # NONE
    BY <1>2, <1>3, <1>4 DEF Complete, Upper
  <2>2. /\ A3(m, v) \in Page \ (left \cup {NoPage, kernel_pml4})
        /\ \A u \in Upper(m), j \in Index : m[u][j] = A3(m, v) => u = A2(m, v)
    BY <1>1, <2>1 DEF Tree, A3
  <2>3. A3(m, v) \notin First(m)
    <3> SUFFICES ASSUME A3(m, v) \in First(m) PROVE FALSE
      OBVIOUS
    <3>1. PICK k \in Index : A3(m, v) = m[kernel_pml4][k]
      BY DEF First
    <3>2. kernel_pml4 = A2(m, v)
      BY <2>2, <3>1 DEF Upper
    <3> QED  BY <2>1, <3>2, LevelsApart
  <2>4. A3(m, v) \notin Second(m)
    <3> SUFFICES ASSUME A3(m, v) \in Second(m) PROVE FALSE
      OBVIOUS
    <3>1. PICK t \in First(m), k \in Index : A3(m, v) = m[t][k]
      BY DEF Second
    <3>2. t = A2(m, v)
      BY <2>2, <3>1 DEF Upper
    <3> QED  BY <2>1, <3>2, LevelsApart
  <2> QED  BY <2>2, <2>3, <2>4 DEF Upper
<1> QED  BY <1>2, <1>3, <1>4

\* A nonempty set of numbers has a least element.
LEMMA Least ==
  ASSUME NEW T, T \subseteq Nat, T # {}
  PROVE  \E x \in T : \A y \in T : x <= y
<1> DEFINE R == OpToRel(<, Nat)
<1>1. IsWellFoundedOn(R, Nat)
  BY NatLessThanWellFounded
<1>2. \A x, y \in Nat : <<y, x>> \in R <=> y < x
  BY DEF OpToRel
<1> HIDE DEF R
<1>3. PICK x \in T : \A y \in T : ~(<<y, x>> \in R)
  BY <1>1, WFMin
<1>4. ASSUME NEW y \in T PROVE x <= y
  BY <1>2, <1>3, x \in Nat /\ y \in Nat /\ ~(y < x)
<1> QED  BY <1>4

\* A page that is granted is one of those that are left.
LEMMA Granting ==
  ASSUME NEW left, left \subseteq Page, Lowest(left) # NoPage
  PROVE  Lowest(left) \in left
<1>1. left # {} /\ left \subseteq Nat
  BY Constants DEF Lowest, Page
<1>2. PICK p \in left : \A q \in left : p <= q
  BY <1>1, Least
<1> QED  BY <1>1, <1>2 DEF Lowest

-----------------------------------------------------------------------------
\* m with a fresh, cleared page p below entry k of table t.
Grown(m, t, k, p) == [Cleared(m, p) EXCEPT ![t][k] = p]

LEMMA GrownIs ==
  ASSUME NEW m, NEW left, Tree(m, left), NEW t \in Upper(m), NEW k \in Index, NEW p \in left
  PROVE  /\ Grown(m, t, k, p) \in Memory
         /\ t # p
         /\ \A j \in Index : Grown(m, t, k, p)[p][j] = NONE
         /\ Grown(m, t, k, p)[t][k] = p
         /\ \A u \in Page, j \in Index :
              u # p /\ (u # t \/ j # k) => Grown(m, t, k, p)[u][j] = m[u][j]
<1>1. t \in Page \ left /\ p \in Page /\ m \in Memory
  BY LevelsApart, Constants DEF Tree
<1>2. Empty \in [Index -> Entry] /\ \A j \in Index : Empty[j] = NONE
  BY DEF Empty, Entry
<1>3. Cleared(m, p) \in Memory /\ Cleared(m, p)[p] = Empty /\ \A u \in Page : u # p => Cleared(m, p)[u] = m[u]
  BY <1>1, <1>2 DEF Cleared, Memory
<1>4. p \in Entry
  BY <1>1 DEF Entry
<1> QED  BY <1>1, <1>2, <1>3, <1>4 DEF Grown, Memory

\* The page added is the only new table.
LEMMA GrownUpper ==
  ASSUME NEW m, NEW left, Tree(m, left), NEW t \in Upper(m), NEW k \in Index, NEW p \in left
  PROVE  Upper(Grown(m, t, k, p)) \subseteq Upper(m) \cup {p}
<1> DEFINE g == Grown(m, t, k, p)
<1>1. /\ \A j \in Index : g[p][j] = NONE
      /\ \A u \in Upper(m), j \in Index : g[u][j] = m[u][j] \/ g[u][j] = p
  BY GrownIs, LevelsApart
<1> HIDE DEF g
<1>2. First(g) \subseteq First(m) \cup {p}
  BY <1>1 DEF First, Upper
<1>3. ASSUME NEW q \in Second(g) PROVE q \in Second(m) \cup {p}
  <2>1. PICK u \in First(g), j \in Index : q = g[u][j] /\ q # NONE
    BY DEF Second
  <2>2. u \in First(m)
    BY <1>1, <1>2, <2>1
  <2>3. g[u][j] = m[u][j] \/ g[u][j] = p
    BY <1>1, <2>2 DEF Upper
  <2> QED  BY <2>1, <2>2, <2>3 DEF Second
<1>4. Upper(g) \subseteq Upper(m) \cup {p}
  BY <1>2, <1>3 DEF Upper
<1> QED  BY <1>4 DEF g

\* A table added below an entry that was empty leaves a tree.
LEMMA GrownTree ==
  ASSUME NEW m, NEW left, Tree(m, left), NEW t \in Upper(m), NEW k \in Index, NEW p \in left,
         m[t][k] = NONE
  PROVE  Tree(Grown(m, t, k, p), left \ {p})
<1> DEFINE g == Grown(m, t, k, p)
<1>1. /\ \A j \in Index : g[p][j] = NONE
      /\ g[t][k] = p
      /\ \A u \in Upper(m), j \in Index : (u # t \/ j # k) => g[u][j] = m[u][j]
      /\ g \in Memory
  BY GrownIs, LevelsApart
<1>2. Upper(g) \subseteq Upper(m) \cup {p}
  BY GrownUpper
<1> HIDE DEF g
<1>3. p \in Page \ {NoPage, kernel_pml4}
  BY DEF Tree
<1>4. ASSUME NEW u \in Upper(g), NEW j \in Index, g[u][j] # NONE
      PROVE  /\ u \in Upper(m)
             /\ (u = t /\ j = k /\ g[u][j] = p)
                \/ (g[u][j] = m[u][j] /\ m[u][j] # p /\ (u # t \/ j # k)
                    /\ m[u][j] \in Page \ (left \cup {NoPage, kernel_pml4}))
  <2>1. u \in Upper(m)
    BY <1>1, <1>2, <1>4
  <2>2. CASE u = t /\ j = k
    BY <1>1, <2>1, <2>2
  <2>3. CASE u # t \/ j # k
    <3>1. g[u][j] = m[u][j]
      BY <1>1, <2>1, <2>3
    <3>2. m[u][j] \in Page \ (left \cup {NoPage, kernel_pml4})
      BY <1>4, <2>1, <3>1 DEF Tree
    <3> QED  BY <2>1, <2>3, <3>1, <3>2
  <2> QED  BY <2>2, <2>3
<1>5. ASSUME NEW u \in Upper(g), NEW j \in Index, g[u][j] # NONE
      PROVE  /\ g[u][j] \in Page \ ((left \ {p}) \cup {NoPage, kernel_pml4})
             /\ \A w \in Upper(g), i \in Index : g[w][i] = g[u][j] => w = u /\ i = j
  <2>1. g[u][j] \in Page \ ((left \ {p}) \cup {NoPage, kernel_pml4})
    BY <1>3, <1>4, <1>5
  <2>2. ASSUME NEW w \in Upper(g), NEW i \in Index, g[w][i] = g[u][j]
        PROVE  w = u /\ i = j
    <3>1. g[w][i] # NONE
      BY <1>5, <2>2
    <3>2. /\ w \in Upper(m) /\ u \in Upper(m)
          /\ (w = t /\ i = k /\ g[w][i] = p) \/ (g[w][i] = m[w][i] /\ m[w][i] # p)
          /\ (u = t /\ j = k /\ g[u][j] = p) \/ (g[u][j] = m[u][j] /\ m[u][j] # p)
      BY <1>4, <1>5, <3>1
    <3>3. CASE g[u][j] = p
      BY <2>2, <3>2, <3>3
    <3>4. CASE g[u][j] # p
      <4>1. m[w][i] = m[u][j] /\ m[u][j] # NONE
        BY <1>5, <2>2, <3>2, <3>4
      <4> QED  BY <3>2, <4>1 DEF Tree
    <3> QED  BY <3>3, <3>4
  <2> QED  BY <2>1, <2>2
<1>6. left \ {p} \subseteq Page \ {NoPage, kernel_pml4}
  BY DEF Tree
<1>7. Tree(g, left \ {p})
  BY <1>1, <1>5, <1>6 DEF Tree
<1> QED  BY <1>7 DEF g

\* It leads no address anywhere else: where the way down ended, it ends now at the latest
\* in the cleared page.
LEMMA GrownWalk ==
  ASSUME NEW m, NEW left, Tree(m, left), NEW t \in Upper(m), NEW k \in Index, NEW p \in left,
         m[t][k] = NONE, NEW v \in [1..4 -> Index]
  PROVE  Walk(Grown(m, t, k, p), v) = Walk(m, v)
<1> DEFINE g == Grown(m, t, k, p)
<1>1. /\ \A j \in Index : g[p][j] = NONE
      /\ \A u \in Upper(m), j \in Index : g[u][j] = m[u][j] \/ (g[u][j] = p /\ m[u][j] = NONE)
      /\ \A u \in Page \ (left \cup Upper(m)), j \in Index : g[u][j] = m[u][j]
  <2>1. Upper(m) \subseteq Page \ left /\ p \in left
    BY LevelsApart
  <2> QED  BY <2>1, GrownIs
<1> HIDE DEF g
<1>2. v[1] \in Index /\ v[2] \in Index /\ v[3] \in Index /\ v[4] \in Index
  OBVIOUS
<1>3. p # NONE
  BY Constants DEF Tree
<1>4. kernel_pml4 \in Upper(m) /\ First(m) \subseteq Upper(m) /\ Second(m) \subseteq Upper(m)
  BY DEF Upper
<1>5. A1(g, v) = A1(m, v) \/ (A1(g, v) = p /\ A1(m, v) = NONE)
  BY <1>1, <1>2, <1>4 DEF A1
<1>6. CASE A1(m, v) = NONE
  <2>1. ~Complete(m, v)
    BY <1>6 DEF Complete
  <2>2. A1(g, v) = NONE \/ A2(g, v) = NONE
    BY <1>1, <1>2, <1>5, <1>6 DEF A2
  <2> QED  BY <2>1, <2>2 DEF Walk, Complete, g
<1>7. CASE A1(m, v) # NONE
  <2>1. A1(m, v) \in Upper(m) /\ A1(g, v) = A1(m, v)
    BY <1>4, <1>5, <1>7, WayDown
  <2>2. A2(g, v) = A2(m, v) \/ (A2(g, v) = p /\ A2(m, v) = NONE)
    BY <1>1, <1>2, <2>1 DEF A2
  <2>3. CASE A2(m, v) = NONE
    <3>1. A2(g, v) = NONE \/ A3(g, v) = NONE
      BY <1>1, <1>2, <2>2, <2>3 DEF A3
    <3> QED  BY <2>3, <3>1 DEF Walk, Complete, g
  <2>4. CASE A2(m, v) # NONE
    <3>1. A2(m, v) \in Upper(m) /\ A2(g, v) = A2(m, v)
      BY <1>4, <1>7, <2>2, <2>4, WayDown
    <3>2. A3(g, v) = A3(m, v) \/ (A3(g, v) = p /\ A3(m, v) = NONE)
      BY <1>1, <1>2, <3>1 DEF A3
    <3>3. CASE A3(m, v) = NONE
      <4>1. A3(g, v) = NONE \/ A4(g, v) = NONE
        BY <1>1, <1>2, <3>2, <3>3 DEF A4
      <4> QED  BY <3>3, <4>1 DEF Walk, Complete, g
    <3>4. CASE A3(m, v) # NONE
      <4>1. Complete(m, v) /\ Complete(g, v)
        BY <1>7, <2>1, <2>4, <3>1, <3>2, <3>4 DEF Complete
      <4>2. A3(m, v) \in Page \ (left \cup Upper(m)) /\ A3(g, v) = A3(m, v)
        BY <3>2, <3>4, <4>1, WayDown
      <4>3. A4(g, v) = A4(m, v)
        BY <1>1, <1>2, <4>2 DEF A4
      <4> QED  BY <4>1, <4>3 DEF Walk, g
    <3> QED  BY <3>3, <3>4
  <2> QED  BY <2>3, <2>4
<1> QED  BY <1>6, <1>7

-----------------------------------------------------------------------------
\* m with x in entry k of t, a table that holds no links.
Put(m, t, k, x) == [m EXCEPT ![t][k] = x]

\* No link and no table changes.
LEMMA PutTree ==
  ASSUME NEW m, NEW left, Tree(m, left), NEW t \in Page \ Upper(m), NEW k \in Index,
         NEW x \in Frames \cup {NONE}
  PROVE  /\ Tree(Put(m, t, k, x), left)
         /\ \A u \in Upper(m) : Put(m, t, k, x)[u] = m[u]
         /\ \A u \in Page, j \in Index :
              Put(m, t, k, x)[u][j] = IF u = t /\ j = k THEN x ELSE m[u][j]
<1> DEFINE q == Put(m, t, k, x)
<1>1. m \in Memory /\ x \in Entry /\ Upper(m) \subseteq Page
  BY LevelsApart DEF Tree, Entry
<1>2. /\ q \in Memory
      /\ \A u \in Upper(m) : q[u] = m[u]
      /\ \A u \in Page, j \in Index : q[u][j] = IF u = t /\ j = k THEN x ELSE m[u][j]
  BY <1>1 DEF Put, Memory
<1> HIDE DEF q
<1>3. First(q) = First(m)
  BY <1>2 DEF First, Upper
<1>4. Second(q) = Second(m)
  <2>1. \A u \in First(m) : q[u] = m[u]
    BY <1>2 DEF Upper
  <2>2. {{q[u][j] : j \in Index} : u \in First(m)} = {{m[u][j] : j \in Index} : u \in First(m)}
    BY <2>1
  <2> QED  BY <1>3, <2>2 DEF Second
<1>5. Upper(q) = Upper(m)
  BY <1>3, <1>4 DEF Upper
<1>6. Tree(q, left)
  BY <1>2, <1>5 DEF Tree
<1> QED  BY <1>2, <1>6 DEF q

\* Two addresses that share their last table share the first three indices.
LEMMA OnePath ==
  ASSUME NEW m, NEW left, Tree(m, left), NEW v \in [1..4 -> Index], NEW w \in [1..4 -> Index],
         Complete(m, v), Complete(m, w), A3(m, w) = A3(m, v), w[4] = v[4]
  PROVE  w = v
<1>1. /\ A1(m, v) \in Upper(m) /\ A2(m, v) \in Upper(m) /\ A1(m, w) \in Upper(m)
      /\ A2(m, w) \in Upper(m) /\ kernel_pml4 \in Upper(m)
  BY WayDown DEF Complete, Upper
<1>2. \A i \in 1..4 : v[i] \in Index /\ w[i] \in Index
  OBVIOUS
<1>3. A2(m, w) = A2(m, v) /\ w[3] = v[3]
  BY <1>1, <1>2 DEF Tree, A3, Complete
<1>4. A1(m, w) = A1(m, v) /\ w[2] = v[2]
  BY <1>1, <1>2, <1>3 DEF Tree, A2, Complete
<1>5. w[1] = v[1]
  BY <1>1, <1>2, <1>4 DEF Tree, A1, Complete
<1>6. \A i \in 1..4 : w[i] = v[i]
  <2> TAKE i \in 1..4
  <2>1. i = 1 \/ i = 2 \/ i = 3 \/ i = 4
    OBVIOUS
  <2> QED  BY <1>3, <1>4, <1>5, <2>1
<1> QED  BY <1>6

\* An entry of the last table on the way to v changes where v leads, and nothing else.
LEMMA PutWalk ==
  ASSUME NEW m, NEW left, Tree(m, left), NEW v \in [1..4 -> Index], Complete(m, v),
         NEW x \in Frames \cup {NONE}, NEW w \in [1..4 -> Index]
  PROVE  Walk(Put(m, A3(m, v), v[4], x), w) = IF w = v THEN x ELSE Walk(m, w)
<1> DEFINE t == A3(m, v)
           q == Put(m, t, v[4], x)
<1>1. t \in Page \ Upper(m) /\ \A i \in 1..4 : v[i] \in Index /\ w[i] \in Index
  BY WayDown
<1>2. /\ \A u \in Upper(m) : q[u] = m[u]
      /\ \A u \in Page, j \in Index : q[u][j] = IF u = t /\ j = v[4] THEN x ELSE m[u][j]
  BY <1>1, PutTree
<1> HIDE DEF q
<1>3. A1(q, w) = A1(m, w)
  BY <1>2 DEF A1, Upper
<1>4. A1(m, w) # NONE => A2(q, w) = A2(m, w)
  <2>1. A1(m, w) # NONE => A1(m, w) \in Upper(m)
    BY WayDown DEF Upper
  <2> QED  BY <1>2, <1>3, <2>1 DEF A2
<1>5. A1(m, w) # NONE /\ A2(m, w) # NONE => A3(q, w) = A3(m, w)
  <2>1. A1(m, w) # NONE /\ A2(m, w) # NONE => A2(m, w) \in Upper(m)
    BY WayDown DEF Upper
  <2> QED  BY <1>2, <1>4, <2>1 DEF A3
<1>6. Complete(q, w) <=> Complete(m, w)
  BY <1>3, <1>4, <1>5 DEF Complete
<1>7. CASE ~Complete(m, w)
  BY <1>6, <1>7 DEF Walk, q
<1>8. CASE Complete(m, w)
  <2>1. A3(m, w) \in Page /\ A3(q, w) = A3(m, w)
    BY <1>5, <1>8, WayDown DEF Complete
  <2>2. A4(q, w) = IF A3(m, w) = t /\ w[4] = v[4] THEN x ELSE A4(m, w)
    BY <1>1, <1>2, <2>1 DEF A4
  <2>3. A3(m, w) = t /\ w[4] = v[4] <=> w = v
    BY <1>8, OnePath
  <2> QED  BY <1>6, <1>8, <2>2, <2>3 DEF Walk, q
<1> QED  BY <1>7, <1>8

-----------------------------------------------------------------------------
\* What is exhausted stays so.
LEMMA StaysExhausted ==
  ASSUME NEW s, NEW t, NEW k, NEW r, r = WithTable(s, t, k), s.exhausted \in BOOLEAN
  PROVE  r.exhausted \in BOOLEAN /\ (r.exhausted = FALSE => s.exhausted = FALSE)
<1>1. CASE s.mem[t][k] # NONE
  BY <1>1 DEF WithTable
<1>2. CASE s.mem[t][k] = NONE
  <2>1. r.exhausted = (s.exhausted \/ Lowest(s.free) = NoPage)
    BY <1>2 DEF WithTable
  <2> QED  BY <2>1
<1> QED  BY <1>1, <1>2

\* After WithTable there is a table below the entry, and addresses lead where they did.
Extends(r, s, t, k) ==
    /\ Tree(r.mem, r.free)
    /\ r.mem[t][k] # NONE
    /\ \A u \in Upper(s.mem), j \in Index : s.mem[u][j] # NONE => r.mem[u][j] = s.mem[u][j]
    /\ \A v \in [1..4 -> Index] : Walk(r.mem, v) = Walk(s.mem, v)

LEMMA WithTableExtends ==
  ASSUME NEW s, Tree(s.mem, s.free), NEW t \in Upper(s.mem), NEW k \in Index,
         NEW r, r = WithTable(s, t, k), r.exhausted = FALSE
  PROVE  Extends(r, s, t, k)
<1> DEFINE p == Lowest(s.free)
<1>1. CASE s.mem[t][k] # NONE
  BY <1>1 DEF WithTable, Extends
<1>2. CASE s.mem[t][k] = NONE
  <2>1. r.mem = Grown(s.mem, t, k, p) /\ r.free = s.free \ {p} /\ p # NoPage
    BY <1>2 DEF WithTable, Grown
  <2>2. p \in s.free /\ p # NONE
    BY <2>1, Granting, Constants DEF Tree
  <2>3. Tree(r.mem, r.free) /\ \A v \in [1..4 -> Index] : Walk(r.mem, v) = Walk(s.mem, v)
    BY <1>2, <2>1, <2>2, GrownTree, GrownWalk
  <2>4. Upper(s.mem) \subseteq Page \ s.free
    BY LevelsApart
  <2>5. /\ r.mem[t][k] = p
        /\ \A u \in Upper(s.mem), j \in Index : s.mem[u][j] # NONE => r.mem[u][j] = s.mem[u][j]
    BY <1>2, <2>1, <2>2, <2>4, GrownIs
  <2> QED  BY <2>2, <2>3, <2>5 DEF Extends
<1> QED  BY <1>1, <1>2

\* The whole of map_virtual_memory, from a state in which the allocator has not answered NULL
\* to one in which it has not.
LEMMA MapSound ==
  ASSUME PagingInv, NEW v \in VPages, NEW x \in Frames \cup {NoPage},
         ~exhausted, map_virtual_memory(v, x)
  PROVE  /\ exhausted' \in BOOLEAN
         /\ ~exhausted' =>
              /\ Tree(memory', free')
              /\ want' = [want EXCEPT ![v] = Leaf(x)]
              /\ \A w \in VPages : Walk(memory', w) = IF w = v THEN Leaf(x) ELSE Walk(memory, w)
<1> DEFINE i1  == v[1]
           i2  == v[2]
           i3  == v[3]
           i4  == v[4]
           s0  == [mem |-> memory, free |-> free, exhausted |-> exhausted]
           s1  == WithTable(s0, kernel_pml4, i1)
           pdp == s1.mem[kernel_pml4][i1]
           s2  == WithTable(s1, pdp, i2)
           pd  == s2.mem[pdp][i2]
           s3  == WithTable(s2, pd, i3)
           pt  == s3.mem[pd][i3]
<1>1. /\ memory' = Put(s3.mem, pt, i4, Leaf(x)) /\ free' = s3.free
      /\ exhausted' = s3.exhausted /\ want' = [want EXCEPT ![v] = Leaf(x)]
  BY DEF map_virtual_memory, Put, Leaf
<1>2. /\ v \in [1..4 -> Index] /\ VPages \subseteq [1..4 -> Index]
      /\ i1 = v[1] /\ i2 = v[2] /\ i3 = v[3] /\ i4 = v[4]
      /\ i1 \in Index /\ i2 \in Index /\ i3 \in Index /\ i4 \in Index
  BY PagingAssumption
<1>3. /\ Tree(s0.mem, s0.free) /\ s0.exhausted = FALSE /\ s0.mem = memory
  BY DEF PagingInv
<1>4. s1 = WithTable(s0, kernel_pml4, i1)
  OBVIOUS
<1>5. s2 = WithTable(s1, pdp, i2)
  OBVIOUS
<1>6. s3 = WithTable(s2, pd, i3)
  OBVIOUS
<1>7. pdp = s1.mem[kernel_pml4][i1] /\ pd = s2.mem[pdp][i2] /\ pt = s3.mem[pd][i3]
  OBVIOUS
<1> HIDE DEF i1, i2, i3, i4, s0, s1, pdp, s2, pd, s3, pt
<1>8. s1.exhausted \in BOOLEAN /\ (s1.exhausted = FALSE => s0.exhausted = FALSE)
  BY <1>3, <1>4, StaysExhausted
<1>9. s2.exhausted \in BOOLEAN /\ (s2.exhausted = FALSE => s1.exhausted = FALSE)
  BY <1>8, <1>5, StaysExhausted
<1>10. s3.exhausted \in BOOLEAN /\ (s3.exhausted = FALSE => s2.exhausted = FALSE)
  BY <1>9, <1>6, StaysExhausted
<1>11. ASSUME s3.exhausted = FALSE
       PROVE  /\ Tree(memory', free')
              /\ \A w \in VPages : Walk(memory', w) = IF w = v THEN Leaf(x) ELSE Walk(memory, w)
  <2>1. s1.exhausted = FALSE /\ s2.exhausted = FALSE
    BY <1>9, <1>10, <1>11
  <2>2. /\ Tree(s1.mem, s1.free) /\ s1.mem[kernel_pml4][i1] # NONE
        /\ \A w \in [1..4 -> Index] : Walk(s1.mem, w) = Walk(memory, w)
    <3>1. kernel_pml4 \in Upper(s0.mem) /\ i1 \in Index
      BY <1>2 DEF Upper
    <3>2. Tree(s0.mem, s0.free) /\ s1.exhausted = FALSE
      BY <1>3, <2>1
    <3>3. Extends(s1, s0, kernel_pml4, i1)
      BY <1>4, <3>1, <3>2, WithTableExtends
    <3> QED  BY <1>3, <3>3 DEF Extends
  <2>3. pdp = A1(s1.mem, v) /\ pdp \in Upper(s1.mem) /\ kernel_pml4 \in Upper(s1.mem) /\ pdp # NONE
    BY <1>2, <1>7, <2>2, WayDown DEF A1, Upper
  <2>4. /\ Tree(s2.mem, s2.free) /\ s2.mem[pdp][i2] # NONE
        /\ \A u \in Upper(s1.mem), j \in Index :
             s1.mem[u][j] # NONE => s2.mem[u][j] = s1.mem[u][j]
        /\ \A w \in [1..4 -> Index] : Walk(s2.mem, w) = Walk(s1.mem, w)
    <3>1. i2 \in Index /\ pdp \in Upper(s1.mem)
      BY <1>2, <2>3
    <3>2. Tree(s1.mem, s1.free) /\ s2.exhausted = FALSE
      BY <2>1, <2>2
    <3>3. Extends(s2, s1, pdp, i2)
      BY <1>5, <3>1, <3>2, WithTableExtends
    <3> QED  BY <3>3 DEF Extends
  <2>5. s2.mem[kernel_pml4][i1] = pdp /\ pd # NONE
    BY <1>2, <1>7, <2>2, <2>3, <2>4
  <2>6. pdp = A1(s2.mem, v) /\ pd = A2(s2.mem, v)
    BY <1>2, <1>7, <2>5 DEF A1, A2
  <2>7. pdp \in Upper(s2.mem) /\ pd \in Upper(s2.mem) /\ kernel_pml4 \in Upper(s2.mem)
    BY <1>2, <2>3, <2>4, <2>5, <2>6, WayDown DEF Upper
  <2>8. /\ Tree(s3.mem, s3.free) /\ s3.mem[pd][i3] # NONE
        /\ \A u \in Upper(s2.mem), j \in Index :
             s2.mem[u][j] # NONE => s3.mem[u][j] = s2.mem[u][j]
        /\ \A w \in [1..4 -> Index] : Walk(s3.mem, w) = Walk(s2.mem, w)
    <3>1. i3 \in Index /\ pd \in Upper(s2.mem)
      BY <1>2, <2>7
    <3>2. Tree(s2.mem, s2.free) /\ s3.exhausted = FALSE
      BY <1>11, <2>4
    <3>3. Extends(s3, s2, pd, i3)
      BY <1>6, <3>1, <3>2, WithTableExtends
    <3> QED  BY <3>3 DEF Extends
  <2>9. s3.mem[kernel_pml4][i1] = pdp /\ s3.mem[pdp][i2] = pd /\ pt # NONE
    BY <1>2, <1>7, <2>3, <2>5, <2>7, <2>8
  <2>10. Complete(s3.mem, v) /\ pt = A3(s3.mem, v)
    BY <1>2, <1>7, <2>3, <2>5, <2>9 DEF Complete, A1, A2, A3
  <2>11. Leaf(x) \in Frames \cup {NONE}
    BY DEF Leaf
  <2>12. \A w \in VPages : Walk(memory', w) = IF w = v THEN Leaf(x) ELSE Walk(s3.mem, w)
    BY <1>1, <1>2, <2>8, <2>10, <2>11, PutWalk
  <2>13. Tree(memory', free')
    <3>1. pt \in Page \ Upper(s3.mem)
      BY <1>2, <2>8, <2>10, WayDown
    <3> QED  BY <1>1, <1>2, <2>8, <2>11, <3>1, PutTree
  <2>14. \A w \in VPages : Walk(s3.mem, w) = Walk(memory, w)
    BY <1>2, <2>2, <2>4, <2>8
  <2> QED  BY <2>12, <2>13, <2>14
<1> QED  BY <1>1, <1>10, <1>11

LEMMA InitPaging == PagingInit => PagingInv
<1> SUFFICES ASSUME PagingInit PROVE PagingInv
  OBVIOUS
<1>1. /\ memory \in Memory /\ \A k \in Index : memory[kernel_pml4][k] = NONE
      /\ free = Page \ {NoPage, kernel_pml4} /\ exhausted = FALSE /\ want = [v \in VPages |-> NONE]
  BY Constants DEF PagingInit, Memory, Entry, Empty, kernel_pml4
<1>2. First(memory) = {}
  BY <1>1 DEF First
<1>3. Second(memory) = {}
  BY <1>2 DEF Second
<1>4. Tree(memory, free)
  BY <1>1, <1>2, <1>3 DEF Tree, Upper
<1>5. \A v \in VPages : Walk(memory, v) = NONE
  BY <1>1, PagingAssumption DEF Walk, Complete, A1
<1> QED  BY <1>1, <1>4, <1>5 DEF PagingInv

LEMMA NextPaging == PagingInv /\ [PagingNext]_pagingVars => PagingInv'
<1> SUFFICES ASSUME PagingInv, [PagingNext]_pagingVars PROVE PagingInv'
  OBVIOUS
<1>1. CASE UNCHANGED pagingVars
  <2>1. memory' = memory /\ free' = free /\ exhausted' = exhausted /\ want' = want
    BY <1>1 DEF pagingVars
  <2>2. Tree(memory', free') <=> Tree(memory, free)
    BY <2>1
  <2>3. \A v \in VPages : Walk(memory', v) = Walk(memory, v)
    BY <2>1
  <2> QED  BY <2>1, <2>2, <2>3 DEF PagingInv
<1>2. CASE PagingNext
  <2>1. PICK v \in VPages, x \in Frames \cup {NoPage} : ~exhausted /\ map_virtual_memory(v, x)
    BY <1>2 DEF PagingNext, Map
  <2>2. /\ exhausted' \in BOOLEAN
        /\ ~exhausted' =>
              /\ Tree(memory', free')
              /\ want' = [want EXCEPT ![v] = Leaf(x)]
              /\ \A w \in VPages : Walk(memory', w) = IF w = v THEN Leaf(x) ELSE Walk(memory, w)
    BY <2>1, MapSound
  <2>3. want \in [VPages -> Frames \cup {NONE}] /\ \A w \in VPages : Walk(memory, w) = want[w]
    BY <2>1 DEF PagingInv
  <2>4. Leaf(x) \in Frames \cup {NONE}
    BY DEF Leaf
  <2>5. ~exhausted' => /\ want' \in [VPages -> Frames \cup {NONE}]
                       /\ \A w \in VPages : Walk(memory', w) = want'[w]
    BY <2>2, <2>3, <2>4
  <2>6. PagingInv' <=> /\ exhausted' \in BOOLEAN
                       /\ ~exhausted' => /\ Tree(memory', free')
                                         /\ want' \in [VPages -> Frames \cup {NONE}]
                                         /\ \A w \in VPages : Walk(memory', w) = want'[w]
    BY DEF PagingInv
  <2> QED  BY <2>2, <2>5, <2>6
<1> QED  BY <1>1, <1>2

THEOREM PagingInvariant == PagingSpec => []PagingInv
BY InitPaging, NextPaging, PTL DEF PagingSpec

-----------------------------------------------------------------------------
\* What the properties walk is the tree of the invariant.
LEMMA InvMaps == PagingInv => MapsExactly
<1> SUFFICES ASSUME PagingInv, ~exhausted, NEW v \in VPages
             PROVE  Walked(v) = IF want[v] = NONE THEN {} ELSE {want[v]}
  BY DEF MapsExactly
<1>1. /\ Tree(memory, free) /\ Walk(memory, v) = want[v] /\ v \in [1..4 -> Index]
      /\ NONE \notin Page /\ kernel_pml4 \in Page
  BY PagingAssumption, Constants DEF PagingInv
<1>2. \A t \in Page, k \in Index : Below({t}, k) = {memory[t][k]} \ {NONE}
  BY DEF Below
<1>3. \A k \in Index : Below({}, k) = {}
  BY DEF Below
<1>4. v[1] \in Index /\ v[2] \in Index /\ v[3] \in Index /\ v[4] \in Index
  BY <1>1
<1>5. Below({kernel_pml4}, v[1]) = {A1(memory, v)} \ {NONE}
  BY <1>1, <1>2, <1>4 DEF A1
<1>6. CASE A1(memory, v) = NONE
  <2>1. Walked(v) = {}
    BY <1>3, <1>4, <1>5, <1>6 DEF Walked
  <2> QED  BY <1>1, <1>6, <2>1 DEF Walk, Complete
<1>7. CASE A1(memory, v) # NONE
  <2>1. A1(memory, v) \in Page
    BY <1>1, <1>7, WayDown, LevelsApart DEF Upper
  <2>2. Below({A1(memory, v)}, v[2]) = {A2(memory, v)} \ {NONE} /\ {A1(memory, v)} \ {NONE} = {A1(memory, v)}
    BY <1>2, <1>4, <1>7, <2>1 DEF A2
  <2>3. CASE A2(memory, v) = NONE
    <3>1. Walked(v) = {}
      BY <1>3, <1>4, <1>5, <2>2, <2>3 DEF Walked
    <3> QED  BY <1>1, <2>3, <3>1 DEF Walk, Complete
  <2>4. CASE A2(memory, v) # NONE
    <3>1. A2(memory, v) \in Page
      BY <1>1, <1>7, <2>4, WayDown, LevelsApart DEF Upper
    <3>2. Below({A2(memory, v)}, v[3]) = {A3(memory, v)} \ {NONE} /\ {A2(memory, v)} \ {NONE} = {A2(memory, v)}
      BY <1>2, <1>4, <2>4, <3>1 DEF A3
    <3>3. CASE A3(memory, v) = NONE
      <4>1. Walked(v) = {}
        BY <1>3, <1>4, <1>5, <2>2, <3>2, <3>3 DEF Walked
      <4> QED  BY <1>1, <3>3, <4>1 DEF Walk, Complete
    <3>4. CASE A3(memory, v) # NONE
      <4>1. Complete(memory, v)
        BY <1>7, <2>4, <3>4 DEF Complete
      <4>2. A3(memory, v) \in Page
        BY <1>1, <4>1, WayDown
      <4>3. Below({A3(memory, v)}, v[4]) = {A4(memory, v)} \ {NONE} /\ {A3(memory, v)} \ {NONE} = {A3(memory, v)}
        BY <1>2, <1>4, <3>4, <4>2 DEF A4
      <4>4. Walked(v) = {A4(memory, v)} \ {NONE}
        BY <1>5, <2>2, <3>2, <4>3 DEF Walked
      <4> QED  BY <1>1, <4>1, <4>4 DEF Walk
    <3> QED  BY <3>3, <3>4
  <2> QED  BY <2>3, <2>4
<1> QED  BY <1>6, <1>7

LEMMA InvApart == PagingInv => TablesApart
<1> SUFFICES ASSUME PagingInv, ~exhausted
             PROVE  /\ \A l, m \in Links : memory[l[1]][l[2]] = memory[m[1]][m[2]] => l = m
                    /\ \A l \in Links : memory[l[1]][l[2]] \notin free \cup {NoPage, kernel_pml4}
  BY DEF TablesApart
<1>1. Tree(memory, free) /\ kernel_pml4 \in Page
  BY Constants DEF PagingInv
<1>2. Children({kernel_pml4}) = First(memory)
  BY <1>1 DEF Children, Below, First
<1>3. Children(First(memory)) \subseteq Second(memory)
  BY DEF Children, Below, Second
<1>4. Tables \subseteq Upper(memory)
  BY <1>2, <1>3 DEF Tables, Upper
<1>5. \A l \in Links : /\ l[1] \in Upper(memory) /\ l[2] \in Index /\ l = <<l[1], l[2]>>
                       /\ memory[l[1]][l[2]] # NONE
  BY <1>4 DEF Links
<1>6. ASSUME NEW l \in Links, NEW n \in Links, memory[l[1]][l[2]] = memory[n[1]][n[2]]
      PROVE  l = n
  <2>1. l[1] = n[1] /\ l[2] = n[2]
    BY <1>1, <1>5, <1>6 DEF Tree
  <2> QED  BY <1>5, <2>1
<1> QED  BY <1>1, <1>5, <1>6 DEF Tree

\* As long as the allocator has pages for the tables, every virtual page leads to what it was
\* last mapped to, whatever was mapped or unmapped since.
THEOREM MapsAreExact == PagingSpec => []MapsExactly
BY PagingInvariant, InvMaps, PTL

\* As long as it has, no page is used as a table in two places or granted while it is one.
THEOREM TablesStayApart == PagingSpec => []TablesApart
BY PagingInvariant, InvApart, PTL
=============================================================================
