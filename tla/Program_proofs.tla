---------------------------- MODULE Program_proofs ----------------------------
(***************************************************************************)
(* What elf_load does with memory, for any page size, memory and file whose  *)
(* segments are aligned: it writes to its own pages only, no two of which    *)
(* are one, and the program finds its segments there.  No step of the       *)
(* program or of the kernel's entry code is one of the loader's, so this    *)
(* holds of the machine that also makes system calls; and each of those      *)
(* calls reaches the handler as it was made and leaves the program its      *)
(* registers.                                                               *)
(***************************************************************************)
EXTENDS Program, FiniteSetTheorems, WellFoundedInduction, TLAPS

Bytes(h) == Addresses(h.virtual_base, h.size_memory)
First(h) == h.virtual_base \div PageSize

-----------------------------------------------------------------------------
\* Pages and addresses.
LEMMA Constants ==
  /\ PageSize \in Nat /\ PageSize > 0 /\ NPages \in Nat /\ VLimit \in Nat /\ StackPages \in Nat
  /\ \A p \in 1..NPages : p # NONE
BY ElfLoadAssumption

LEMMA Parts ==
  ASSUME NEW a \in Nat
  PROVE  /\ a \div PageSize \in Nat /\ a % PageSize \in 0..PageSize - 1
         /\ a = (a \div PageSize) * PageSize + (a % PageSize)
<1>1. \A b \in Nat \ {0} : a \div b \in Nat /\ a % b \in 0..b - 1 /\ a = b * (a \div b) + (a % b)
  OBVIOUS
<1>2. PageSize \in Nat \ {0}
  BY Constants
<1>3. \A b \in Nat \ {0}, q \in Nat : b * q = q * b
  OBVIOUS
<1> QED  BY <1>1, <1>2, <1>3

LEMMA PartsOf ==
  ASSUME NEW q \in Nat, NEW r \in 0..PageSize - 1
  PROVE  (q * PageSize + r) \div PageSize = q /\ (q * PageSize + r) % PageSize = r
<1>1. ASSUME NEW P \in Nat, P > 0, r \in 0..P - 1
      PROVE  (q * P + r) \div P = q /\ (q * P + r) % P = r
  BY <1>1
<1> QED  BY <1>1, Constants

LEMMA Multiples ==
  ASSUME NEW q \in Nat, NEW r \in Nat, q < r
  PROVE  q * PageSize \in Nat /\ r * PageSize \in Nat /\ q * PageSize + PageSize <= r * PageSize
<1>1. ASSUME NEW P \in Nat, P > 0 PROVE q * P \in Nat /\ r * P \in Nat /\ q * P + P <= r * P
  BY <1>1
<1> QED  BY <1>1, Constants

\* A nonempty set of numbers has a least element.
LEMMA Least ==
  ASSUME NEW T, T \subseteq Nat, T # {}
  PROVE  \E x \in T : \A y \in T : x <= y
<1> DEFINE R == OpToRel(<, Nat)
<1>1. IsWellFoundedOn(R, Nat)
  BY NatLessThanWellFounded
<1>2. \A x, y \in Nat : <<y, x>> \in R <=> y < x
  BY DEF OpToRel
<1> HIDE DEF R
<1>3. PICK x \in T : \A y \in T : ~(<<y, x>> \in R)
  BY <1>1, WFMin
<1>4. ASSUME NEW y \in T PROVE x <= y
  BY <1>2, <1>3, x \in Nat /\ y \in Nat /\ ~(y < x)
<1> QED  BY <1>4

LEMMA Greatest ==
  ASSUME NEW T, T \subseteq 1..NPages, T # {}
  PROVE  \E x \in T : \A y \in T : y <= x
<1> DEFINE U == {NPages - x : x \in T}
<1>1. U \subseteq Nat /\ U # {}
  <2>1. NPages \in Nat /\ \A x \in T : NPages - x \in Nat
    BY Constants
  <2> QED  BY <2>1
<1>2. PICK u \in U : \A w \in U : u <= w
  <2> HIDE DEF U
  <2> QED  BY <1>1, Least
<1>3. PICK x \in T : u = NPages - x
  OBVIOUS
<1>4. ASSUME NEW y \in T PROVE y <= x
  <2>1. NPages - y \in U
    OBVIOUS
  <2>2. NPages - x <= NPages - y /\ x \in Int /\ y \in Int
    BY <1>2, <1>3, <2>1
  <2> QED  BY <2>2, Constants
<1> QED  BY <1>4

\* What is below the k-th page that is left: k pages.
LEMMA KthPage ==
  ASSUME NEW S, S \subseteq 1..NPages, NEW k \in Nat, k < Cardinality(S)
  PROVE  \E p \in S : Cardinality({q \in S : q < p}) = k
<1> DEFINE below(p) == {q \in S : q < p}
           T == {p \in S : Cardinality(below(p)) >= k}
<1>1. IsFiniteSet(S) /\ \A p \in S : IsFiniteSet(below(p))
  <2>1. IsFiniteSet(1..NPages)
    BY FS_Interval, Constants
  <2>2. \A p \in S : below(p) \subseteq 1..NPages
    OBVIOUS
  <2> QED  BY <2>1, <2>2, FS_Subset
<1>2. \A p \in S : Cardinality(below(p)) \in Nat
  BY <1>1, FS_CardinalityType
<1>3. T # {}
  <2>1. S # {}
    BY FS_EmptySet
  <2>2. PICK p \in S : \A q \in S : q <= p
    BY <2>1, Greatest
  <2>3. below(p) = S \ {p}
    <3>1. \A q \in S : q < p <=> q # p
      BY <2>2, S \subseteq Int
    <3> QED  BY <3>1
  <2>4. Cardinality(below(p)) = Cardinality(S) - 1
    BY <1>1, <2>3, FS_RemoveElement
  <2>5. Cardinality(below(p)) >= k
    BY <1>1, <2>4, FS_CardinalityType
  <2> QED  BY <2>5
<1>4. PICK p \in T : \A q \in T : p <= q
  <2>1. S \subseteq Nat /\ T \subseteq S
    BY Constants
  <2> HIDE DEF T
  <2> QED  BY <1>3, <2>1, Least
<1>5. p \in S /\ Cardinality(below(p)) >= k
  OBVIOUS
<1>6. ASSUME Cardinality(below(p)) # k PROVE FALSE
  <2>1. Cardinality(below(p)) > k
    BY <1>2, <1>5, <1>6
  <2>2. below(p) # {} /\ below(p) \subseteq 1..NPages
    <3>1. CASE below(p) = {}
      BY <2>1, <3>1, FS_EmptySet
    <3> QED  BY <3>1
  <2>3. PICK q \in below(p) : \A r \in below(p) : r <= q
    BY <2>2, Greatest
  <2>4. q \in S /\ q < p /\ p \in Int /\ S \subseteq Int
    BY <1>5
  <2>5. below(q) = below(p) \ {q}
    <3>1. \A r \in S : r < q <=> r < p /\ r # q
      BY <2>3, <2>4
    <3> QED  BY <3>1
  <2>6. Cardinality(below(q)) = Cardinality(below(p)) - 1
    BY <1>1, <1>5, <2>5, FS_RemoveElement
  <2>7. q \in T
    BY <1>2, <1>5, <2>1, <2>4, <2>6
  <2>8. p <= q
    BY <1>4, <2>7
  <2> QED  BY <2>4, <2>8
<1> QED  BY <1>5, <1>6

-----------------------------------------------------------------------------
\* The pages of a segment that begins at a page.
LEMMA Geometry ==
  ASSUME NEW h \in elf_program_header, h.virtual_base % PageSize = 0,
         h.virtual_base + h.size_memory <= VLimit * PageSize
  PROVE  /\ First(h) \in Nat /\ PagesFor(h) \in Nat
         /\ \A a \in Bytes(h) : /\ a \in Nat
                                /\ a \div PageSize \in First(h)..First(h) + PagesFor(h) - 1
                                /\ a \div PageSize \in 0..VLimit - 1
         /\ \A v \in First(h)..First(h) + PagesFor(h) - 1 : \E a \in Bytes(h) : a \div PageSize = v
         /\ \A phys \in Nat, j \in 0..PagesFor(h) - 1 :
              Target(phys, h, j) \div PageSize = phys + j
<1> DEFINE P == PageSize
           b == h.virtual_base
           s == h.size_memory
           f == First(h)
           n == PagesFor(h)
<1>1. b \in Nat /\ s \in Nat /\ P \in Nat /\ P > 0 /\ VLimit \in Nat
  BY Constants DEF elf_program_header
<1>2. f \in Nat /\ b = f * P
  BY <1>1, Parts DEF First
<1>3. n \in Nat /\ s + P - 1 = n * P + ((s + P - 1) % P) /\ (s + P - 1) % P \in 0..P - 1
  <2>1. s + P - 1 \in Nat
    BY <1>1
  <2> QED  BY <2>1, Parts DEF PagesFor
<1>4. \A q \in Nat, r \in Nat : q < r => q * P + P <= r * P
  BY Multiples
<1>5. \A q \in Nat, r \in Nat : q * P \in Nat /\ (q + r) * P = q * P + r * P
  BY <1>1
<1> HIDE DEF f, n
<1>6. ASSUME NEW a \in Bytes(h)
      PROVE  /\ a \in Nat
             /\ a \div P \in f..f + n - 1
             /\ a \div P \in 0..VLimit - 1
  <2> DEFINE q == a \div P
  <2>1. a \in Nat /\ b <= a /\ a < b + s
    BY <1>1 DEF Bytes, Addresses
  <2>2. q \in Nat /\ a = q * P + (a % P) /\ a % P \in 0..P - 1
    BY <2>1, Parts
  <2>3. a < (f + n) * P
    <3>1. (f + n) * P = f * P + n * P /\ f * P \in Nat /\ n * P \in Nat
      BY <1>2, <1>3, <1>5
    <3>2. s <= n * P
      <4> DEFINE x == (s + P - 1) % P
      <4>1. x \in 0..P - 1 /\ s + P - 1 = n * P + x
        BY <1>3
      <4> HIDE DEF x
      <4> QED  BY <1>1, <3>1, <4>1
    <3> QED  BY <1>1, <1>2, <2>1, <3>1, <3>2
  <2>4. a < VLimit * P
    BY <1>1, <2>1
  <2> HIDE DEF q
  <2>5. ~(q < f)
    <3> SUFFICES ASSUME q < f PROVE FALSE
      OBVIOUS
    <3>1. q * P + P <= f * P /\ q * P \in Nat
      BY <1>2, <1>4, <1>5, <2>2
    <3> QED  BY <1>1, <1>2, <2>1, <2>2, <3>1
  <2>6. ASSUME NEW x \in Nat, a < x * P PROVE q < x
    <3> SUFFICES ASSUME x <= q PROVE FALSE
      BY <2>2
    <3>1. x * P <= q * P /\ q * P \in Nat /\ x * P \in Nat
      <4>1. CASE x = q
        BY <1>5, <2>2, <4>1
      <4>2. CASE x < q
        BY <1>1, <1>4, <1>5, <2>2, <4>2
      <4> QED  BY <2>2, <4>1, <4>2
    <3> DEFINE y == a % P
    <3>2. y \in 0..P - 1 /\ a = q * P + y
      BY <2>2
    <3> HIDE DEF y
    <3> QED  BY <1>1, <2>1, <2>6, <3>1, <3>2
  <2>7. q < f + n /\ q < VLimit
    BY <1>1, <1>2, <1>3, <2>3, <2>4, <2>6
  <2> QED  BY <1>1, <1>2, <1>3, <2>1, <2>2, <2>5, <2>7 DEF q
<1>7. ASSUME NEW v \in f..f + n - 1 PROVE \E a \in Bytes(h) : a \div P = v
  <2>1. v \in Nat /\ v - f \in Nat /\ v - f < n /\ v = f + (v - f)
    BY <1>2, <1>3
  <2>2. v * P = b + (v - f) * P /\ (v - f) * P \in Nat
    BY <1>2, <1>5, <2>1
  <2>3. (v - f) * P + P <= n * P /\ n * P \in Nat
    BY <1>3, <1>4, <1>5, <2>1
  <2>4. (v - f) * P < s
    <3> DEFINE x == (s + P - 1) % P
    <3>1. x \in 0..P - 1 /\ s + P - 1 = n * P + x
      BY <1>3
    <3> HIDE DEF x
    <3> QED  BY <1>1, <2>2, <2>3, <3>1
  <2>5. v * P \in Bytes(h)
    BY <1>1, <2>2, <2>4 DEF Bytes, Addresses
  <2>6. v * P = v * P + 0 /\ 0 \in 0..P - 1
    BY <1>1, <1>5, <2>1
  <2>7. (v * P) \div P = v
    BY <2>1, <2>6, PartsOf
  <2> QED  BY <2>5, <2>7
<1>8. ASSUME NEW phys \in Nat, NEW j \in 0..n - 1 PROVE Target(phys, h, j) \div P = phys + j
  <2>1. j \in Nat
    BY <1>3
  <2>2. b + j * P = (f + j) * P + 0 /\ 0 \in 0..P - 1 /\ j * P \in Nat
    BY <1>1, <1>2, <1>5, <2>1
  <2>3. (b + j * P) % P = 0
    BY <1>2, <2>1, <2>2, PartsOf
  <2>4. Target(phys, h, j) = (phys + j) * P + 0
    BY <1>1, <1>5, <2>1, <2>2, <2>3 DEF Target, PAGE_ALIGN
  <2> QED  BY <2>1, <2>2, <2>4, PartsOf
<1> QED  BY <1>2, <1>3, <1>6, <1>7, <1>8 DEF f, n

-----------------------------------------------------------------------------
\* What elf_load has established about segment k once it has loaded it.
Loaded(k) ==
    \A b \in 0..file[k].size_memory - 1 :
        LET a == file[k].virtual_base + b
        IN  /\ table[a \div PageSize] # NONE
            /\ Seen(a) = IF b < file[k].size_file THEN <<k, b>> ELSE ZERO

Granting ==
    /\ file \in Files /\ i \in Nat \ {0}
    /\ pool \subseteq 1..NPages /\ granted \subseteq 1..NPages /\ pool \cap granted = {}
    /\ DOMAIN memory = Addresses(0, (NPages + 1) * PageSize)
    /\ pc = "user" => i > Len(file)

Mapping ==
    /\ table \in [VPage -> granted \cup {NONE}]
    /\ \A v, w \in VPage : table[v] # NONE /\ table[v] = table[w] => v = w
    /\ \A m \in DOMAIN memory : m \div PageSize \notin granted => memory[m] = OTHERS
    /\ pc # "fault" =>
          \A k \in 1..Len(file) : k < i /\ file[k].type = "PT_LOAD" => Loaded(k)

LoadInv == Granting /\ (Aligned => Mapping)

LEMMA RunIsLeft ==
  ASSUME pool \subseteq 1..NPages, NEW n \in Nat, n = 0 \/ Run(n) # 0
  PROVE  Run(n) \in Nat /\ Addresses(Run(n), n) \subseteq pool
<1> DEFINE starts == {p \in pool : Addresses(p, n) \subseteq pool}
<1>1. starts \subseteq Nat /\ pool \subseteq Nat
  <2>1. pool \subseteq Nat
    BY Constants
  <2> QED  BY <2>1
<1>2. CASE starts = {}
  <2>1. Run(n) = 0
    BY <1>2 DEF Run
  <2>2. n = 0
    BY <2>1
  <2>3. Addresses(0, 0) = {}
    BY DEF Addresses
  <2> QED  BY <2>1, <2>2, <2>3
<1>3. CASE starts # {}
  <2>1. \E p \in starts : \A q \in starts : p <= q
    <3> HIDE DEF starts
    <3> QED  BY <1>1, <1>3, Least
  <2>2. Run(n) = CHOOSE p \in starts : \A q \in starts : p <= q
    BY <1>3 DEF Run
  <2>3. Run(n) \in starts
    <3> HIDE DEF starts
    <3> QED  BY <2>1, <2>2
  <2> QED  BY <1>1, <2>3
<1> QED  BY <1>2, <1>3

\* Segments of an aligned file: their pages, and that they share none.
LEMMA SegmentPages ==
  ASSUME file \in Files, Aligned, NEW k \in 1..Len(file), file[k].type = "PT_LOAD"
  PROVE  LET h == file[k]
         IN  /\ h \in elf_program_header
             /\ First(h) \in Nat /\ PagesFor(h) \in Nat
             /\ \A a \in Bytes(h) : /\ a \in Nat
                                    /\ a \div PageSize \in First(h)..First(h) + PagesFor(h) - 1
                                    /\ a \div PageSize \in 0..VLimit - 1
             /\ \A phys \in Nat, j \in 0..PagesFor(h) - 1 :
                  Target(phys, h, j) \div PageSize = phys + j
             /\ \A l \in 1..Len(file) \ {k} : file[l].type = "PT_LOAD" =>
                  \A a \in Bytes(file[l]) :
                      a \div PageSize \notin First(h)..First(h) + PagesFor(h) - 1
<1>1. file \in Seq(elf_program_header) /\ DOMAIN file = 1..Len(file)
  BY FilesAssumption
<1>2. /\ file[k] \in elf_program_header
      /\ file[k].virtual_base + file[k].size_memory <= VLimit * PageSize
      /\ file[k].virtual_base % PageSize = 0
  BY <1>1, FilesAssumption DEF Aligned
<1> DEFINE h == file[k]
<1>3. /\ First(h) \in Nat /\ PagesFor(h) \in Nat
      /\ \A a \in Bytes(h) : /\ a \in Nat
                             /\ a \div PageSize \in First(h)..First(h) + PagesFor(h) - 1
                             /\ a \div PageSize \in 0..VLimit - 1
      /\ \A v \in First(h)..First(h) + PagesFor(h) - 1 : \E a \in Bytes(h) : a \div PageSize = v
      /\ \A phys \in Nat, j \in 0..PagesFor(h) - 1 :
           Target(phys, h, j) \div PageSize = phys + j
  BY <1>2, Geometry
<1>4. ASSUME NEW l \in 1..Len(file) \ {k}, file[l].type = "PT_LOAD", NEW a \in Bytes(file[l])
      PROVE  a \div PageSize \notin First(h)..First(h) + PagesFor(h) - 1
  <2> SUFFICES ASSUME a \div PageSize \in First(h)..First(h) + PagesFor(h) - 1 PROVE FALSE
    OBVIOUS
  <2>1. PICK c \in Bytes(h) : c \div PageSize = a \div PageSize
    BY <1>3
  <2>2. {x \div PageSize : x \in Bytes(h)} \cap {x \div PageSize : x \in Bytes(file[l])} = {}
    BY <1>1, <1>4 DEF Aligned, Bytes
  <2> QED  BY <2>1, <2>2
<1> QED  BY <1>2, <1>3, <1>4

\* A physical address is in memory, and in its page.
LEMMA Inside ==
  ASSUME NEW p \in 1..NPages, NEW r \in 0..PageSize - 1
  PROVE  /\ p * PageSize + r \in Addresses(0, (NPages + 1) * PageSize)
         /\ (p * PageSize + r) \div PageSize = p /\ (p * PageSize + r) % PageSize = r
<1>1. p \in Nat /\ NPages + 1 \in Nat /\ p < NPages + 1
  BY Constants
<1>2. /\ p * PageSize \in Nat /\ (NPages + 1) * PageSize \in Nat
      /\ p * PageSize + PageSize <= (NPages + 1) * PageSize
  BY <1>1, Multiples
<1>3. p * PageSize + r \in Addresses(0, (NPages + 1) * PageSize)
  BY <1>2, Constants DEF Addresses
<1> QED  BY <1>1, <1>3, PartsOf

LEMMA InitLoad == Init => LoadInv
<1> SUFFICES ASSUME Init PROVE LoadInv
  OBVIOUS
<1>1. Granting
  BY ElfLoadAssumption DEF Init, Granting
<1>2. Mapping
  <2>1. /\ table \in [VPage -> {NONE}] /\ \A v \in VPage : table[v] = NONE
        /\ \A m \in DOMAIN memory : memory[m] = OTHERS
    BY DEF Init
  <2>2. i = 1 /\ granted = {}
    BY DEF Init
  <2>3. \A k \in 1..Len(file) : ~(k < i)
    BY <2>2
  <2> QED  BY <2>1, <2>2, <2>3 DEF Mapping
<1> QED  BY <1>1, <1>2 DEF LoadInv

\* Nothing of a segment's that is loaded depends on anything but the table and memory.
LEMMA StaysLoaded ==
  ASSUME NEW k, Loaded(k), file' = file,
         \A b \in 0..file[k].size_memory - 1 :
             LET a == file[k].virtual_base + b
             IN  /\ table'[a \div PageSize] = table[a \div PageSize]
                 /\ memory'[table[a \div PageSize] * PageSize + (a % PageSize)]
                      = memory[table[a \div PageSize] * PageSize + (a % PageSize)]
  PROVE  Loaded(k)'
BY DEF Loaded, Seen

-----------------------------------------------------------------------------
\* A segment whose pages have been granted and mapped, and its memory written.
LEMMA SegmentMapped ==
  ASSUME LoadInv, Aligned, pc = "headers", i <= Len(file), file[i].type = "PT_LOAD",
         Run(PagesFor(file[i])) # 0 \/ PagesFor(file[i]) = 0,
         table' = Mapped(Run(PagesFor(file[i])), file[i])
  PROVE  LET h == file[i]
             run == Addresses(Run(PagesFor(h)), PagesFor(h))
         IN  /\ table' \in [VPage -> granted \cup run \cup {NONE}]
             /\ \A v, w \in VPage : table'[v] # NONE /\ table'[v] = table'[w] => v = w
             /\ \A a \in Bytes(h) : a \div PageSize \in VPage /\ table'[a \div PageSize] \in run
             /\ \A l \in 1..Len(file) \ {i} : file[l].type = "PT_LOAD" =>
                  \A a \in Bytes(file[l]) : table'[a \div PageSize] = table[a \div PageSize]
<1> DEFINE h == file[i]
           n == PagesFor(h)
           phys == Run(n)
           run == Addresses(phys, n)
           f == First(h)
<1>1. /\ i \in 1..Len(file) /\ file \in Files /\ pool \subseteq 1..NPages
      /\ granted \subseteq 1..NPages /\ pool \cap granted = {}
      /\ table \in [VPage -> granted \cup {NONE}]
      /\ \A v, w \in VPage : table[v] # NONE /\ table[v] = table[w] => v = w
  BY FilesAssumption DEF LoadInv, Granting, Mapping
<1>2. /\ f \in Nat /\ n \in Nat
      /\ \A a \in Bytes(h) : a \in Nat /\ a \div PageSize \in f..f + n - 1 /\ a \div PageSize \in 0..VLimit - 1
      /\ \A p \in Nat, j \in 0..n - 1 : Target(p, h, j) \div PageSize = p + j
      /\ \A l \in 1..Len(file) \ {i} : file[l].type = "PT_LOAD" =>
           \A a \in Bytes(file[l]) : a \div PageSize \notin f..f + n - 1
  BY <1>1, SegmentPages
<1>3. phys \in Nat /\ run \subseteq pool
  BY <1>1, <1>2, RunIsLeft
<1>4. /\ \A v \in VPage : v \in Nat
      /\ 0..VLimit - 1 \subseteq VPage
  BY Constants DEF VPage, StackTop
<1> HIDE DEF phys, n, f
<1>5. \A v \in VPage : table'[v] = IF v \in f..f + n - 1 THEN phys + (v - f) ELSE table[v]
  <2> SUFFICES ASSUME NEW v \in VPage
               PROVE  table'[v] = IF v \in f..f + n - 1 THEN phys + (v - f) ELSE table[v]
    OBVIOUS
  <2>1. table'[v] = IF v - f \in 0..n - 1 THEN Target(phys, h, v - f) \div PageSize ELSE table[v]
    BY DEF Mapped, phys, n, f, First
  <2>2. v - f \in 0..n - 1 <=> v \in f..f + n - 1
    <3>1. v \in Nat /\ f \in Nat /\ n \in Nat
      BY <1>2, <1>4
    <3> QED  BY <3>1
  <2>3. v - f \in 0..n - 1 => Target(phys, h, v - f) \div PageSize = phys + (v - f)
    BY <1>2, <1>3
  <2> QED  BY <2>1, <2>2, <2>3
<1>6. \A v \in f..f + n - 1 : phys + (v - f) \in run
  BY <1>2, <1>3 DEF Addresses
<1>7. table' \in [VPage -> granted \cup run \cup {NONE}]
  <2>1. table' = [v \in VPage |-> table'[v]]
    BY DEF Mapped
  <2>2. \A v \in VPage : table'[v] \in granted \cup run \cup {NONE}
    BY <1>1, <1>5, <1>6
  <2> HIDE DEF run
  <2> QED  BY <2>1, <2>2
<1>8. ASSUME NEW v \in VPage, NEW w \in VPage, table'[v] # NONE, table'[v] = table'[w]
      PROVE  v = w
  <2>1. CASE v \in f..f + n - 1 /\ w \in f..f + n - 1
    <3>1. phys + (v - f) = phys + (w - f)
      BY <1>5, <1>8, <2>1
    <3> QED  BY <1>2, <1>3, <1>4, <3>1
  <2>2. CASE v \notin f..f + n - 1 /\ w \notin f..f + n - 1
    BY <1>1, <1>5, <1>8, <2>2
  <2>3. ASSUME NEW x \in VPage, NEW y \in VPage, x \in f..f + n - 1, y \notin f..f + n - 1,
               table'[x] = table'[y], table'[x] # NONE
        PROVE  FALSE
    <3>1. table'[x] \in pool
      BY <1>3, <1>5, <1>6, <2>3
    <3>2. table'[y] \in granted
      BY <1>1, <1>5, <2>3
    <3> QED  BY <1>1, <2>3, <3>1, <3>2
  <2> QED  BY <1>8, <2>1, <2>2, <2>3
<1>9. ASSUME NEW a \in Bytes(h) PROVE a \div PageSize \in VPage /\ table'[a \div PageSize] \in run
  <2>1. a \div PageSize \in f..f + n - 1 /\ a \div PageSize \in VPage
    BY <1>2, <1>4
  <2>2. table'[a \div PageSize] = phys + (a \div PageSize - f)
    BY <1>5, <2>1
  <2> HIDE DEF run
  <2> QED  BY <1>6, <2>1, <2>2
<1>10. ASSUME NEW l \in 1..Len(file) \ {i}, file[l].type = "PT_LOAD", NEW a \in Bytes(file[l])
       PROVE  table'[a \div PageSize] = table[a \div PageSize]
  <2>1. a \div PageSize \in VPage
    BY <1>1, <1>4, <1>10, SegmentPages
  <2> QED  BY <1>2, <1>5, <1>10, <2>1
<1> QED  BY <1>7, <1>8, <1>9, <1>10 DEF phys, n

\* What elf_load writes, when all of the segment is mapped.
LEMMA SegmentWritten ==
  ASSUME LoadInv, Aligned, pc = "headers", i <= Len(file), file[i].type = "PT_LOAD",
         Run(PagesFor(file[i])) # 0 \/ PagesFor(file[i]) = 0,
         table' = Mapped(Run(PagesFor(file[i])), file[i]),
         LET place(a) == table'[a \div PageSize] * PageSize + (a % PageSize)
         IN  memory' = [m \in DOMAIN memory |->
                 IF \E a \in Bytes(file[i]) : place(a) = m
                 THEN LET a == CHOOSE a \in Bytes(file[i]) : place(a) = m
                      IN  Content(a - file[i].virtual_base, file[i])
                 ELSE memory[m]]
  PROVE  LET h == file[i]
             run == Addresses(Run(PagesFor(h)), PagesFor(h))
         IN  /\ DOMAIN memory' = DOMAIN memory
             /\ \A m \in DOMAIN memory : m \div PageSize \notin run => memory'[m] = memory[m]
             /\ \A a \in Bytes(h) :
                  memory'[table'[a \div PageSize] * PageSize + (a % PageSize)]
                    = Content(a - h.virtual_base, h)
<1> DEFINE h == file[i]
           run == Addresses(Run(PagesFor(h)), PagesFor(h))
           place(a) == table'[a \div PageSize] * PageSize + (a % PageSize)
<1>1. /\ i \in 1..Len(file) /\ file \in Files /\ pool \subseteq 1..NPages
      /\ DOMAIN memory = Addresses(0, (NPages + 1) * PageSize)
  BY FilesAssumption DEF LoadInv, Granting
<1>2. run \subseteq 1..NPages
  <2>1. PagesFor(h) \in Nat
    BY <1>1, SegmentPages
  <2> QED  BY <1>1, <2>1, RunIsLeft
<1>3. /\ \A v, w \in VPage : table'[v] # NONE /\ table'[v] = table'[w] => v = w
      /\ \A a \in Bytes(h) : a \div PageSize \in VPage /\ table'[a \div PageSize] \in run
  BY SegmentMapped
<1>4. \A a \in Bytes(h) : a \in Nat
  BY <1>1, SegmentPages
<1> HIDE DEF run
<1>5. ASSUME NEW a \in Bytes(h)
      PROVE  /\ place(a) \in DOMAIN memory
             /\ place(a) \div PageSize = table'[a \div PageSize]
             /\ place(a) % PageSize = a % PageSize
  <2>1. table'[a \div PageSize] \in 1..NPages /\ a % PageSize \in 0..PageSize - 1
    BY <1>2, <1>3, <1>4, Parts
  <2> QED  BY <1>1, <2>1, Inside
<1>6. ASSUME NEW a \in Bytes(h), NEW c \in Bytes(h), place(a) = place(c)
      PROVE  a = c
  <2>1. table'[a \div PageSize] = table'[c \div PageSize] /\ a % PageSize = c % PageSize
    BY <1>5, <1>6
  <2>2. a \div PageSize = c \div PageSize
    <3>1. table'[a \div PageSize] # NONE
      BY <1>2, <1>3, Constants
    <3> QED  BY <1>3, <2>1, <3>1
  <2> QED  BY <1>4, <2>1, <2>2, Parts
<1>7. memory' = [m \in DOMAIN memory |->
                 IF \E a \in Bytes(h) : place(a) = m
                 THEN Content((CHOOSE a \in Bytes(h) : place(a) = m) - h.virtual_base, h)
                 ELSE memory[m]]
  OBVIOUS
<1> HIDE DEF place
<1>8. ASSUME NEW m \in DOMAIN memory, m \div PageSize \notin run
      PROVE  memory'[m] = memory[m]
  <2>1. ~\E a \in Bytes(h) : place(a) = m
    BY <1>3, <1>5, <1>8
  <2> QED  BY <1>7, <2>1
<1>9. ASSUME NEW a \in Bytes(h)
      PROVE  memory'[place(a)] = Content(a - h.virtual_base, h)
  <2>1. (CHOOSE c \in Bytes(h) : place(c) = place(a)) = a
    BY <1>6
  <2> QED  BY <1>5, <1>7, <2>1
<1>10. DOMAIN memory' = DOMAIN memory
  BY <1>7
<1> QED  BY <1>8, <1>9, <1>10 DEF place, run

LEMMA SegmentKeeps == LoadInv /\ LoadSegment => LoadInv'
<1> SUFFICES ASSUME LoadInv, LoadSegment PROVE LoadInv'
  OBVIOUS
<1> DEFINE h == file[i]
           n == PagesFor(h)
           run == Addresses(Run(n), n)
           place(a) == table'[a \div PageSize] * PageSize + (a % PageSize)
<1>1. /\ file' = file /\ (Aligned' <=> Aligned) /\ pc = "headers" /\ i \in 1..Len(file) /\ i \in Nat
      /\ i <= Len(file) /\ file[i].type = "PT_LOAD" /\ Len(file) \in Nat
  BY FilesAssumption DEF LoadSegment, Aligned, LoadInv, Granting
<1>2. n \in Nat
  <2>1. h \in elf_program_header
    BY <1>1, FilesAssumption DEF LoadInv, Granting
  <2>2. h.size_memory + PageSize - 1 \in Nat
    BY <2>1, Constants DEF elf_program_header
  <2> QED  BY <2>2, Parts DEF PagesFor
<1>3. CASE n > 0 /\ Run(n) = 0
  <2>1. pc' = "fault" /\ UNCHANGED <<file, pool, granted, table, memory, i>>
    BY <1>3 DEF LoadSegment
  <2> QED  BY <1>1, <2>1 DEF LoadInv, Granting, Mapping
<1>4. CASE ~(n > 0 /\ Run(n) = 0)
  <2>1. /\ pool' = pool \ run /\ granted' = granted \cup run
        /\ table' = Mapped(Run(n), h)
        /\ \/ pc' = "fault" /\ memory' = memory /\ i' = i
           \/ /\ memory' = [m \in DOMAIN memory |->
                              IF \E a \in Bytes(h) : place(a) = m
                              THEN LET a == CHOOSE a \in Bytes(h) : place(a) = m
                                   IN  Content(a - h.virtual_base, h)
                              ELSE memory[m]]
              /\ i' = i + 1 /\ pc' = pc
    BY <1>4 DEF LoadSegment, Bytes
  <2>2. n = 0 \/ Run(n) # 0
    BY <1>2, <1>4
  <2>3. run \subseteq pool
    BY <1>2, <2>2, RunIsLeft DEF LoadInv, Granting
  <2>4. Granting'
    <3>1. /\ pool' \subseteq 1..NPages /\ granted' \subseteq 1..NPages /\ pool' \cap granted' = {}
      <4> HIDE DEF run
      <4> QED  BY <2>1, <2>3 DEF LoadInv, Granting
    <3>2. DOMAIN memory' = DOMAIN memory /\ i' \in Nat \ {0} /\ pc' # "user"
      BY <1>1, <2>1
    <3> QED  BY <1>1, <3>1, <3>2 DEF LoadInv, Granting
  <2>5. ASSUME Aligned PROVE Mapping'
    <3>1. /\ table' \in [VPage -> granted' \cup {NONE}]
          /\ \A v, w \in VPage : table'[v] # NONE /\ table'[v] = table'[w] => v = w
          /\ \A a \in Bytes(h) : a \div PageSize \in VPage /\ table'[a \div PageSize] \in run
          /\ \A l \in 1..Len(file) \ {i} : file[l].type = "PT_LOAD" =>
               \A a \in Bytes(file[l]) : table'[a \div PageSize] = table[a \div PageSize]
      BY <1>1, <2>1, <2>2, <2>5, SegmentMapped
    <3>2. Mapping /\ granted \cap run = {} /\ run \subseteq 1..NPages
      BY <2>3, <2>5 DEF LoadInv, Granting
    <3>3. CASE pc' = "fault" /\ memory' = memory /\ i' = i
      <4>1. \A m \in DOMAIN memory' : m \div PageSize \notin granted' => memory'[m] = OTHERS
        BY <2>1, <3>2, <3>3 DEF Mapping
      <4> QED  BY <3>1, <3>3, <4>1 DEF Mapping
    <3>4. CASE ~(pc' = "fault" /\ memory' = memory /\ i' = i)
      <4>1. /\ DOMAIN memory' = DOMAIN memory
            /\ \A m \in DOMAIN memory : m \div PageSize \notin run => memory'[m] = memory[m]
            /\ \A a \in Bytes(h) : memory'[place(a)] = Content(a - h.virtual_base, h)
            /\ i' = i + 1
        BY <1>1, <2>1, <2>2, <2>5, <3>4, SegmentWritten
      <4>2. \A m \in DOMAIN memory' : m \div PageSize \notin granted' => memory'[m] = OTHERS
        BY <2>1, <3>2, <4>1 DEF Mapping
      <4>3. ASSUME NEW k, k = i PROVE Loaded(k)'
        <5> SUFFICES ASSUME NEW b \in 0..h.size_memory - 1
                     PROVE  LET a == h.virtual_base + b
                            IN  /\ table'[a \div PageSize] # NONE
                                /\ memory'[place(a)] = IF b < h.size_file THEN <<i, b>> ELSE ZERO
          BY <1>1, <4>3 DEF Loaded, Seen
        <5> DEFINE a == h.virtual_base + b
        <5>1. h \in elf_program_header
          BY <1>1, FilesAssumption DEF LoadInv, Granting
        <5>2. a \in Bytes(h) /\ a - h.virtual_base = b
          BY <5>1 DEF Bytes, Addresses, elf_program_header
        <5> HIDE DEF a
        <5>3. table'[a \div PageSize] # NONE
          BY <3>1, <3>2, <5>2, Constants
        <5>4. memory'[place(a)] = IF b < h.size_file THEN <<i, b>> ELSE ZERO
          BY <4>1, <5>2 DEF Content
        <5> QED  BY <5>3, <5>4 DEF a
      <4>4. ASSUME NEW k \in 1..Len(file), k < i, file[k].type = "PT_LOAD" PROVE Loaded(k)'
        <5>1. Loaded(k) /\ k # i
          BY <1>1, <3>2, <4>4 DEF Mapping
        <5>2. ASSUME NEW b \in 0..file[k].size_memory - 1
              PROVE  LET a == file[k].virtual_base + b
                         m == table[a \div PageSize] * PageSize + (a % PageSize)
                     IN  table'[a \div PageSize] = table[a \div PageSize] /\ memory'[m] = memory[m]
          <6> DEFINE a == file[k].virtual_base + b
          <6>1. a \in Bytes(file[k])
            <7>1. file[k] \in elf_program_header
              BY <1>1, FilesAssumption DEF LoadInv, Granting
            <7> QED  BY <7>1 DEF Bytes, Addresses, elf_program_header
          <6>2. table[a \div PageSize] # NONE
            BY <5>1 DEF Loaded
          <6> HIDE DEF a
          <6>3. a \in Nat /\ a \div PageSize \in VPage
            <7>1. a \in Nat /\ a \div PageSize \in 0..VLimit - 1
              BY <1>1, <2>5, <4>4, <6>1, SegmentPages DEF LoadInv, Granting
            <7> QED  BY <7>1, Constants DEF VPage, StackTop
          <6>4. table'[a \div PageSize] = table[a \div PageSize]
            BY <3>1, <4>4, <5>1, <6>1
          <6>5. table[a \div PageSize] \in granted
            BY <3>2, <6>2, <6>3 DEF Mapping
          <6>6. table[a \div PageSize] \in 1..NPages /\ a % PageSize \in 0..PageSize - 1
            BY <6>3, <6>5, Parts DEF LoadInv, Granting
          <6> DEFINE m == table[a \div PageSize] * PageSize + (a % PageSize)
          <6>7. m \in DOMAIN memory /\ m \div PageSize = table[a \div PageSize]
            BY <6>6, Inside DEF LoadInv, Granting
          <6> HIDE DEF m
          <6>8. memory'[m] = memory[m]
            BY <3>2, <4>1, <6>5, <6>7
          <6> QED  BY <6>4, <6>8 DEF a, m
        <5> QED  BY <1>1, <5>1, <5>2, StaysLoaded
      <4>5. \A k \in 1..Len(file') : k < i' /\ file'[k].type = "PT_LOAD" => Loaded(k)'
        <5> SUFFICES ASSUME NEW k \in 1..Len(file), k < i + 1, file[k].type = "PT_LOAD"
                     PROVE  Loaded(k)'
          BY <1>1, <4>1
        <5>1. k = i \/ k < i
          BY <1>1
        <5> QED  BY <4>3, <4>4, <5>1
      <4> QED  BY <3>1, <4>2, <4>5 DEF Mapping
    <3> QED  BY <3>3, <3>4
  <2> QED  BY <1>1, <2>4, <2>5 DEF LoadInv
<1> QED  BY <1>3, <1>4

\* The pages of the stack are the lowest that are left, one by one.
LEMMA StackKeeps == LoadInv /\ MapStack => LoadInv'
<1> SUFFICES ASSUME LoadInv, MapStack PROVE LoadInv'
  OBVIOUS
<1> DEFINE below(p) == Cardinality({q \in pool : q < p})
           page(k) == IF Cardinality(pool) <= k THEN NONE
                      ELSE CHOOSE p \in pool : Cardinality({q \in pool : q < p}) = k
           pages == {page(k) : k \in 0..StackPages} \ {NONE}
<1>1. /\ pc = "headers" /\ i > Len(file) /\ pc' = "user"
      /\ pool' = pool \ pages /\ granted' = granted \cup pages
      /\ table' = [v \in VPage |-> IF v >= VLimit THEN page(v - VLimit) ELSE table[v]]
      /\ file' = file /\ memory' = memory /\ i' = i
  BY DEF MapStack
<1>2. pool \subseteq 1..NPages /\ granted \subseteq 1..NPages /\ pool \cap granted = {}
  BY DEF LoadInv, Granting
<1>3. Cardinality(pool) \in Nat
  <2>1. IsFiniteSet(1..NPages)
    BY FS_Interval, Constants
  <2>2. IsFiniteSet(pool)
    BY <1>2, <2>1, FS_Subset
  <2> QED  BY <2>2, FS_CardinalityType
<1>4. ASSUME NEW k \in Nat
      PROVE  page(k) = NONE \/ (page(k) \in pool /\ below(page(k)) = k)
  <2>1. CASE Cardinality(pool) <= k
    BY <2>1
  <2>2. CASE ~(Cardinality(pool) <= k)
    <3>1. k < Cardinality(pool)
      BY <1>3, <2>2
    <3>2. \E p \in pool : Cardinality({q \in pool : q < p}) = k
      BY <1>2, <3>1, KthPage
    <3>3. page(k) = CHOOSE p \in pool : Cardinality({q \in pool : q < p}) = k
      BY <2>2
    <3> HIDE DEF page
    <3> QED  BY <3>2, <3>3
  <2> QED  BY <2>1, <2>2
<1> HIDE DEF page, below
<1>5. pages \subseteq pool
  <2>1. \A k \in 0..StackPages : page(k) \in pool \cup {NONE}
    BY <1>4, Constants
  <2> QED  BY <2>1
<1>6. \A k \in 0..StackPages : page(k) \in pages \cup {NONE}
  OBVIOUS
<1>7. \A v \in VPage : v \in Nat /\ (v >= VLimit => v - VLimit \in 0..StackPages)
  BY Constants DEF VPage, StackTop
<1> HIDE DEF pages
<1>8. Granting'
  <2>1. pool' \subseteq 1..NPages /\ granted' \subseteq 1..NPages /\ pool' \cap granted' = {}
    BY <1>1, <1>2, <1>5
  <2> QED  BY <1>1, <2>1 DEF LoadInv, Granting
<1>9. ASSUME Aligned PROVE Mapping'
  <2>1. Mapping
    BY <1>9 DEF LoadInv
  <2>2. \A v \in VPage : table'[v] = IF v >= VLimit THEN page(v - VLimit) ELSE table[v]
    BY <1>1
  <2>3. table' \in [VPage -> granted' \cup {NONE}]
    <3>1. \A v \in VPage : table'[v] \in granted' \cup {NONE}
      BY <1>1, <1>6, <1>7, <2>1, <2>2 DEF Mapping
    <3>2. table' = [v \in VPage |-> table'[v]]
      BY <1>1
    <3> QED  BY <3>1, <3>2
  <2>4. ASSUME NEW v \in VPage, NEW w \in VPage, table'[v] # NONE, table'[v] = table'[w]
        PROVE  v = w
    <3>1. CASE v >= VLimit /\ w >= VLimit
      <4>1. page(v - VLimit) = page(w - VLimit) /\ page(v - VLimit) # NONE
        BY <2>2, <2>4, <3>1
      <4>2. v - VLimit \in Nat /\ w - VLimit \in Nat
        BY <1>7, <3>1
      <4>3. v - VLimit = below(page(v - VLimit)) /\ w - VLimit = below(page(w - VLimit))
        BY <1>4, <4>1, <4>2
      <4> QED  BY <1>7, <4>1, <4>3, Constants
    <3>2. CASE ~(v >= VLimit) /\ ~(w >= VLimit)
      BY <2>1, <2>2, <2>4, <3>2 DEF Mapping
    <3>3. ASSUME NEW x \in VPage, NEW y \in VPage, x >= VLimit, ~(y >= VLimit),
                 table'[x] = table'[y], table'[x] # NONE
          PROVE  FALSE
      <4>1. table'[x] = page(x - VLimit) /\ x - VLimit \in Nat
        BY <1>7, <2>2, <3>3
      <4>2. table'[y] \in granted
        BY <2>1, <2>2, <3>3 DEF Mapping
      <4>3. table'[x] \in pool
        BY <1>4, <3>3, <4>1
      <4> QED  BY <1>2, <3>3, <4>2, <4>3
    <3> QED  BY <2>4, <3>1, <3>2, <3>3
  <2>5. \A m \in DOMAIN memory' : m \div PageSize \notin granted' => memory'[m] = OTHERS
    BY <1>1, <2>1 DEF Mapping
  <2>6. ASSUME NEW k \in 1..Len(file), k < i, file[k].type = "PT_LOAD" PROVE Loaded(k)'
    <3>1. Loaded(k)
      BY <1>1, <2>1, <2>6 DEF Mapping
    <3>2. ASSUME NEW b \in 0..file[k].size_memory - 1
          PROVE  LET a == file[k].virtual_base + b
                 IN  table'[a \div PageSize] = table[a \div PageSize]
      <4> DEFINE a == file[k].virtual_base + b
      <4>1. file[k] \in elf_program_header
        BY <2>6, FilesAssumption DEF LoadInv, Granting
      <4>2. a \in Bytes(file[k])
        BY <4>1 DEF Bytes, Addresses, elf_program_header
      <4> HIDE DEF a
      <4>3. a \div PageSize \in 0..VLimit - 1
        BY <1>9, <2>6, <4>2, SegmentPages DEF LoadInv, Granting
      <4>4. a \div PageSize \in VPage /\ ~(a \div PageSize >= VLimit)
        BY <4>3, Constants DEF VPage, StackTop
      <4>5. table'[a \div PageSize] = table[a \div PageSize]
        BY <2>2, <4>4
      <4> QED  BY <4>5 DEF a
    <3> QED  BY <1>1, <3>1, <3>2, StaysLoaded
  <2> QED  BY <1>1, <2>3, <2>4, <2>5, <2>6 DEF Mapping
<1>10. Aligned' <=> Aligned
  BY <1>1 DEF Aligned
<1> QED  BY <1>8, <1>9, <1>10 DEF LoadInv

\* Steps that leave memory and the table alone.
LEMMA OthersKeep ==
  ASSUME LoadInv, NotElf \/ Begin \/ Skip \/ UNCHANGED vars
  PROVE  LoadInv'
<1>1. /\ UNCHANGED <<file, pool, granted, table, memory>>
      /\ (i' = i \/ (i <= Len(file) /\ file[i].type # "PT_LOAD" /\ i' = i + 1))
      /\ (pc' = pc \/ (pc = "start" /\ pc' \in {"returned", "headers"}))
      /\ (i' = i \/ pc = "headers")
  BY DEF NotElf, Begin, Skip, vars
<1>2. Granting'
  BY <1>1 DEF LoadInv, Granting
<1>3. Aligned' <=> Aligned
  BY <1>1 DEF Aligned
<1>4. ASSUME Mapping PROVE Mapping'
  <2>1. ASSUME NEW k \in 1..Len(file), k < i', file[k].type = "PT_LOAD", pc' # "fault"
        PROVE  Loaded(k)'
    <3>1. k < i /\ pc # "fault"
      BY <1>1, <2>1 DEF LoadInv, Granting
    <3>2. Loaded(k)
      BY <1>4, <2>1, <3>1 DEF Mapping
    <3> QED  BY <1>1, <3>2 DEF Loaded, Seen
  <2> QED  BY <1>1, <1>4, <2>1 DEF Mapping
<1> QED  BY <1>2, <1>3, <1>4 DEF LoadInv

\* The invariant of the loader.
THEOREM LoadInvariant == Spec => []LoadInv
<1>1. LoadInv /\ [Next]_vars => LoadInv'
  BY SegmentKeeps, StackKeeps, OthersKeep DEF Next
<1> QED  BY <1>1, InitLoad, PTL DEF Spec

\* No page that is not the loader's is written to or mapped, and no two pages of the program
\* share memory, also where memory runs out under way.
THEOREM PagesAreOwn == Spec => []OwnPages
<1>1. LoadInv => OwnPages
  BY DEF LoadInv, Granting, Mapping, OwnPages
<1> QED  BY <1>1, LoadInvariant, PTL

\* In user mode the program finds every segment as its file has it, zeros after it.
THEOREM SegmentsAreLoaded == Spec => []SegmentsLoaded
<1>1. LoadInv => SegmentsLoaded
  <2> SUFFICES ASSUME LoadInv, pc = "user", Aligned, NEW k \in DOMAIN file, file[k].type = "PT_LOAD"
               PROVE  \A b \in 0..file[k].size_memory - 1 :
                          Seen(file[k].virtual_base + b)
                              = IF b < file[k].size_file THEN <<k, b>> ELSE ZERO
    BY DEF SegmentsLoaded
  <2>1. k \in 1..Len(file) /\ k < i
    BY FilesAssumption DEF LoadInv, Granting
  <2>2. Loaded(k)
    BY <2>1 DEF LoadInv, Mapping
  <2> QED  BY <2>2 DEF Loaded
<1> QED  BY <1>1, LoadInvariant, PTL

-----------------------------------------------------------------------------
\* The machine that goes on with system calls.

\* To the loader, init_syscalls, the jump to user mode and system calls are stutters.
LEMMA ProgramLoads == ProgramSpec => Spec
<1>1. ProgramInit => Init
  BY DEF ProgramInit
<1>2. [ProgramNext]_<<vars, cpu>> => [Next]_vars
  BY DEF ProgramNext, InitSyscalls, Load, Jump, Call, Enter, Handle, Leave
<1> QED  BY <1>1, <1>2, PTL DEF ProgramSpec, Spec

\* The pages of a program stay its own while it runs.
THEOREM ProgramOwnsPages == ProgramSpec => []OwnPages
BY ProgramLoads, PagesAreOwn, PTL

\* Its segments are what the file has when elf_load jumps to it.
THEOREM ProgramIsLoaded == ProgramSpec => []SegmentsLoaded
BY ProgramLoads, SegmentsAreLoaded, PTL

-----------------------------------------------------------------------------
\* System calls.

\* What the kernel's stack holds during a call, last push first.
Words(o) == <<o["r15"], o["r14"], o["r13"], o["r12"], o["rbx"], o["rbp"], o["rflags"], o["rip"]>>

CpuTypes == DOMAIN regs = Kernel!Reg /\ DOMAIN origin = Kernel!Reg

\* What SYSRET's selectors come from is set before any program runs.
Selectors ==
    /\ mode # "boot" => star = [user |-> 32, kernel |-> 8]
    /\ mode \in {"entry", "handler"} => cs = 8 /\ ss = 16

\* Between calls nothing is on the kernel's stack.
Between == mode \in {"boot", "kernel", "user", "entry"} => stack = <<>>

\* SYSCALL has changed the registers it uses.
Entered ==
    mode = "entry" =>
        regs = [origin EXCEPT !["rcx"] = origin["rip"], !["r11"] = origin["rflags"],
                              !["rip"] = "syscall_entry", !["rflags"] = "IF_off"]

\* During a call, what the program must find again is in its preserved registers, in
\* user_rsp_saved and on the stack.
Saved ==
    mode \in {"handler", "return"} =>
        /\ \A r \in Kernel!Preserved : regs[r] = origin[r]
        /\ user_rsp_saved = origin["rsp"]
        /\ stack = Words(origin)

CpuInv == CpuTypes /\ Selectors /\ Between /\ Entered /\ Saved /\ ContextKept /\ HandlerCalled

\* syscall_entry's pushes, of registers in which SYSCALL has put rip and rflags.
LEMMA PushedWords ==
  ASSUME NEW o, DOMAIN o = Kernel!Reg, NEW r,
         r = [o EXCEPT !["rcx"] = o["rip"], !["r11"] = o["rflags"],
                       !["rip"] = "syscall_entry", !["rflags"] = "IF_off"]
  PROVE  Kernel!Pushed(r) = Words(o)
<1>1. /\ r["r15"] = o["r15"] /\ r["r14"] = o["r14"] /\ r["r13"] = o["r13"]
      /\ r["r12"] = o["r12"] /\ r["rbx"] = o["rbx"] /\ r["rbp"] = o["rbp"]
      /\ r["r11"] = o["rflags"] /\ r["rcx"] = o["rip"]
  BY DEF Kernel!Reg, Kernel!Preserved, Kernel!Scratch
<1>2. Kernel!Pushed(r) = [k \in 1..8 |-> r[Kernel!Pushes[9 - k]]]
  BY DEF Kernel!Pushed, Kernel!Pushes
<1>3. Words(o) = [k \in 1..8 |-> Words(o)[k]]
  BY DEF Words
<1>4. \A k \in 1..8 : r[Kernel!Pushes[9 - k]] = Words(o)[k]
  BY <1>1 DEF Words, Kernel!Pushes
<1> QED  BY <1>2, <1>3, <1>4

\* Its pops, of the same words.
LEMMA PoppedWords ==
  ASSUME NEW o, NEW r
  PROVE  LET q == Kernel!Popped(r, Words(o))
         IN  /\ DOMAIN q = Kernel!Reg
             /\ \A n \in Kernel!Preserved : q[n] = o[n]
             /\ q["rcx"] = o["rip"] /\ q["r11"] = o["rflags"]
<1> DEFINE at(n) == CHOOSE k \in DOMAIN Kernel!Pops : Kernel!Pops[k] = n
<1>1. DOMAIN Kernel!Pops = 1..8
  BY DEF Kernel!Pops
<1>2. \A n \in Kernel!Preserved \cup {"rcx", "r11"} :
          \E k \in DOMAIN Kernel!Pops : Kernel!Pops[k] = n
  BY <1>1 DEF Kernel!Pops, Kernel!Preserved
<1>3. \A n \in Kernel!Preserved \cup {"rcx", "r11"} :
          at(n) \in 1..8 /\ Kernel!Pops[at(n)] = n
  BY <1>1, <1>2
<1>4. \A k \in 1..8 : Words(o)[k] = IF Kernel!Pops[k] = "rcx" THEN o["rip"]
                                     ELSE IF Kernel!Pops[k] = "r11" THEN o["rflags"]
                                     ELSE o[Kernel!Pops[k]]
  BY DEF Kernel!Pops, Words
<1>5. Kernel!Preserved \cup {"rcx", "r11"} \subseteq Kernel!Reg
  BY DEF Kernel!Reg, Kernel!Scratch
<1>6. \A n \in Kernel!Preserved \cup {"rcx", "r11"} :
          Kernel!Popped(r, Words(o))[n] = Words(o)[at(n)]
  BY <1>2, <1>5 DEF Kernel!Popped
<1>7. \A n \in Kernel!Preserved : n # "rcx" /\ n # "r11"
  BY DEF Kernel!Preserved
<1>8. DOMAIN Kernel!Popped(r, Words(o)) = Kernel!Reg
  BY DEF Kernel!Popped
<1> HIDE DEF at
<1> QED  BY <1>3, <1>4, <1>6, <1>7, <1>8

\* The moves: each argument is copied before its register is overwritten.
LEMMA MovedArguments ==
  ASSUME NEW r, DOMAIN r = Kernel!Reg, r["rcx"] = r["r10"]
  PROVE  LET q == Kernel!Moved(r)
         IN  /\ DOMAIN q = Kernel!Reg
             /\ q["rdi"] = r["rax"] /\ q["rsi"] = r["rdi"] /\ q["rdx"] = r["rsi"]
             /\ q["rcx"] = r["rdx"] /\ q["r8"] = r["r10"] /\ q["r9"] = r["r8"]
             /\ \A n \in Kernel!Preserved : q[n] = r[n]
BY DEF Kernel!Moved, Kernel!Move, Kernel!Reg, Kernel!Preserved, Kernel!Scratch

LEMMA CpuBegins == ProgramInit => CpuInv
BY DEF ProgramInit, Kernel!Init, CpuInv, CpuTypes, Selectors, Between, Entered, Saved,
       ContextKept, Kernel!ContextKept, HandlerCalled, Kernel!HandlerCalled

LEMMA CpuIsKept == CpuInv /\ [ProgramNext]_<<vars, cpu>> => CpuInv'
<1> SUFFICES ASSUME CpuInv, [ProgramNext]_<<vars, cpu>>
             PROVE  CpuInv'
  OBVIOUS
<1> USE DEF CpuInv, CpuTypes, Selectors, Between, Entered, Saved, ContextKept,
            Kernel!ContextKept, HandlerCalled, Kernel!HandlerCalled
<1>1. CASE UNCHANGED cpu
  BY <1>1 DEF cpu
<1>2. CASE InitSyscalls
  BY <1>2 DEF InitSyscalls, Kernel!init_syscalls
<1>3. CASE Jump
  <2>1. /\ mode = "kernel" /\ mode' = "user" /\ origin' = regs' /\ UNCHANGED <<star, stack>>
        /\ DOMAIN regs' = Kernel!Reg
    BY <1>3 DEF Jump, Kernel!jump_usermode
  <2> QED  BY <2>1
<1>4. CASE Call
  <2>1. PICK k \in Numbers, n \in 1..Rounds : Kernel!UserCalls(k, n)
    BY <1>4 DEF Call
  <2> DEFINE user == [r \in Kernel!Reg |-> IF r = "rax" THEN k ELSE <<r, n>>]
  <2>2. /\ mode = "user" /\ mode' = "entry" /\ UNCHANGED <<star, stack>>
        /\ origin' = user
        /\ regs' = [user EXCEPT !["rcx"] = user["rip"], !["r11"] = user["rflags"],
                                !["rip"] = "syscall_entry", !["rflags"] = "IF_off"]
        /\ cs' = star.kernel /\ ss' = star.kernel + 8
    BY <2>1 DEF Kernel!UserCalls
  <2>3. DOMAIN user = Kernel!Reg
    OBVIOUS
  <2> HIDE DEF user
  <2> QED  BY <2>2, <2>3
<1>5. CASE Enter
  <2> DEFINE r == [regs EXCEPT !["rsp"] = "kernel_stack", !["rcx"] = regs["r10"]]
  <2>1. /\ mode = "entry" /\ mode' = "handler"
        /\ UNCHANGED <<cs, ss, star, origin>>
        /\ user_rsp_saved' = regs["rsp"]
        /\ stack' = Kernel!Pushed(regs)
        /\ regs' = Kernel!Moved(r)
        /\ args' = Kernel!Parameters(regs', stack')
    BY <1>5 DEF Enter, Kernel!Enter
  <2>2. /\ DOMAIN r = Kernel!Reg /\ r["rcx"] = r["r10"]
        /\ \A n \in Kernel!Reg \ {"rsp", "rcx"} : r[n] = regs[n]
    BY DEF Kernel!Reg, Kernel!Preserved, Kernel!Scratch
  <2> HIDE DEF r
  <2>3. /\ DOMAIN regs' = Kernel!Reg
        /\ regs'["rdi"] = r["rax"] /\ regs'["rsi"] = r["rdi"] /\ regs'["rdx"] = r["rsi"]
        /\ regs'["rcx"] = r["rdx"] /\ regs'["r8"] = r["r10"] /\ regs'["r9"] = r["r8"]
        /\ \A n \in Kernel!Preserved : regs'[n] = r[n]
    BY <2>1, <2>2, MovedArguments
  <2>4. \A n \in Kernel!Reg \ {"rcx", "r11", "rip", "rflags"} : regs[n] = origin[n]
    BY <2>1
  <2>5. /\ Kernel!Preserved \subseteq Kernel!Reg \ {"rcx", "r11", "rip", "rflags", "rsp"}
        /\ {"rax", "rdi", "rsi", "rdx", "r10", "r8"}
              \subseteq Kernel!Reg \ {"rcx", "r11", "rip", "rflags", "rsp"}
        /\ "rsp" \in Kernel!Reg \ {"rcx", "r11", "rip", "rflags"}
    BY DEF Kernel!Reg, Kernel!Preserved, Kernel!Scratch
  <2>6. /\ \A n \in Kernel!Preserved : regs'[n] = origin[n]
        /\ user_rsp_saved' = origin["rsp"]
        /\ regs'["rdi"] = origin["rax"] /\ regs'["rsi"] = origin["rdi"]
        /\ regs'["rdx"] = origin["rsi"] /\ regs'["rcx"] = origin["rdx"]
        /\ regs'["r8"] = origin["r10"] /\ regs'["r9"] = origin["r8"]
    BY <2>1, <2>2, <2>3, <2>4, <2>5
  <2>7. stack' = Words(origin)
    BY <2>1, PushedWords
  <2>8. /\ args'[1] = origin["rax"] /\ args'[2] = origin["rdi"] /\ args'[3] = origin["rsi"]
        /\ args'[4] = origin["rdx"] /\ args'[5] = origin["r10"] /\ args'[6] = origin["r8"]
    BY <2>1, <2>6 DEF Kernel!Parameters
  <2>9. \A k \in 1..6 : args'[k] = origin[<<"rax", "rdi", "rsi", "rdx", "r10", "r8">>[k]]
    BY <2>8
  <2>10. Len(Words(origin)) = 8
    BY DEF Words
  <2>11. cs' = 8 /\ ss' = 16
    BY <2>1
  <2>12. HandlerCalled'
    BY <2>1, <2>7, <2>9, <2>10, <2>11 DEF Kernel!kernel_code, Kernel!kernel_data
  <2>13. Saved' /\ CpuTypes' /\ Selectors'
    BY <2>1, <2>3, <2>6, <2>7, <2>11
  <2> QED  BY <2>1, <2>12, <2>13
<1>6. CASE Handle
  <2>1. /\ mode = "handler" /\ UNCHANGED <<cs, ss, star, stack, user_rsp_saved, origin, args>>
        /\ \/ mode' = "halted" /\ UNCHANGED regs
           \/ /\ mode' = "return"
              /\ regs' = [r \in Kernel!Reg |-> IF r = "rax" THEN 0
                                               ELSE IF r \in Kernel!Scratch THEN "scratch"
                                               ELSE regs[r]]
    BY <1>6 DEF Handle, Kernel!syscall_handler
  <2>2. \A r \in Kernel!Preserved : r \in Kernel!Reg /\ r # "rax" /\ r \notin Kernel!Scratch
    BY DEF Kernel!Reg, Kernel!Preserved, Kernel!Scratch
  <2>3. CASE mode' = "halted"
    BY <2>1, <2>3
  <2>4. CASE mode' = "return"
    <3>1. /\ DOMAIN regs' = Kernel!Reg
          /\ \A r \in Kernel!Preserved : regs'[r] = regs[r]
      BY <2>1, <2>2, <2>4
    <3> QED  BY <2>1, <2>4, <3>1
  <2> QED  BY <2>1, <2>3, <2>4
<1>7. CASE Leave
  <2> DEFINE r == Kernel!Popped(regs, stack)
  <2>1. /\ mode = "return" /\ mode' = "user" /\ UNCHANGED <<star, user_rsp_saved, origin>>
        /\ regs' = [r EXCEPT !["rsp"] = user_rsp_saved, !["rip"] = r["rcx"],
                             !["rflags"] = r["r11"]]
        /\ stack' = SubSeq(stack, Len(Kernel!Pops) + 1, Len(stack))
    BY <1>7 DEF Leave, Kernel!Leave
  <2>2. /\ DOMAIN r = Kernel!Reg /\ \A n \in Kernel!Preserved : r[n] = origin[n]
        /\ r["rcx"] = origin["rip"] /\ r["r11"] = origin["rflags"]
    BY <2>1, PoppedWords
  <2>3. Len(stack) = 8 /\ Len(Kernel!Pops) = 8
    BY <2>1 DEF Words, Kernel!Pops
  <2>4. stack' = <<>>
    BY <2>1, <2>3
  <2>5. /\ {"rsp", "rip", "rflags"} \subseteq Kernel!Reg
        /\ \A n \in Kernel!Preserved : n \in Kernel!Reg /\ n \notin {"rsp", "rip", "rflags"}
    BY DEF Kernel!Reg, Kernel!Preserved, Kernel!Scratch
  <2> HIDE DEF r
  <2>6. /\ DOMAIN regs' = Kernel!Reg
        /\ \A n \in Kernel!Preserved \cup {"rsp", "rip", "rflags"} : regs'[n] = origin[n]
    BY <2>1, <2>2, <2>5
  <2> QED  BY <2>1, <2>4, <2>6
<1>8. CASE Load
  BY <1>1, <1>8 DEF Load
<1> QED
  BY <1>1, <1>2, <1>3, <1>4, <1>5, <1>6, <1>7, <1>8 DEF ProgramNext, cpu

LEMMA CpuIsSound == ProgramSpec => []CpuInv
BY CpuBegins, CpuIsKept, PTL DEF ProgramSpec

\* After any number of calls, whatever the handler leaves in the scratch registers, a
\* program that elf_load started has its preserved registers, stack pointer, flags and
\* place back.
THEOREM ProgramKeepsContext == ProgramSpec => []ContextKept
<1>1. CpuInv => ContextKept
  BY DEF CpuInv
<1> QED  BY <1>1, CpuIsSound, PTL

\* Every call, whichever number and arguments it has, reaches syscall_handler with them.
THEOREM CallsReachHandler == ProgramSpec => []HandlerCalled
<1>1. CpuInv => HandlerCalled
  BY DEF CpuInv
<1> QED  BY <1>1, CpuIsSound, PTL
=============================================================================
