------------------------------ MODULE Ext2_proofs ------------------------------
(***************************************************************************)
(* What reading a file of an ext2 file system gives, for any size of blocks *)
(* and any number of direct pointers: nothing is written past the buffer,   *)
(* and of a file that one block of pointers is enough for, the calls return *)
(* the blocks in order.  And what opening and listing give, for any tree    *)
(* and any sizes of groups and inodes.                                      *)
(***************************************************************************)
EXTENDS Ext2Data, Ext2Dir, WellFoundedInduction, TLAPS

-----------------------------------------------------------------------------
\* Sequences whose members are of no interest.
IsSequence(s) == \E S : s \in Seq(S)

LEMMA EmptyIsOne == IsSequence(<<>>) /\ Len(<<>>) = 0
<1>1. <<>> \in Seq({})
  OBVIOUS
<1> QED  BY <1>1 DEF IsSequence

LEMMA Appending ==
  ASSUME NEW s, IsSequence(s), NEW x
  PROVE  /\ IsSequence(Append(s, x)) /\ Len(s) \in Nat
         /\ Len(Append(s, x)) = Len(s) + 1
         /\ \A k \in 1..Len(s) : Append(s, x)[k] = s[k]
         /\ Append(s, x)[Len(s) + 1] = x
<1>1. PICK S : s \in Seq(S)
  BY DEF IsSequence
<1>2. s \in Seq(S \cup {x}) /\ x \in S \cup {x}
  BY <1>1
<1> HIDE DEF IsSequence
<1>3. Append(s, x) \in Seq(S \cup {x})
  BY <1>2
<1>4. IsSequence(Append(s, x))
  BY <1>3 DEF IsSequence
<1> QED  BY <1>2, <1>4

\* What follows what the calls have returned.
Extends(t, s, n, f) ==
    /\ IsSequence(t) /\ Len(s) \in Nat /\ Len(t) = Len(s) + n
    /\ \A k \in 1..Len(s) : t[k] = s[k]
    /\ \A k \in 1..n : t[Len(s) + k] = f[k]

LEMMA Concatenating ==
  ASSUME NEW s, IsSequence(s), NEW n \in Nat, NEW T, NEW f \in [1..n -> T]
  PROVE  Extends(s \o f, s, n, f)
<1>1. PICK S : s \in Seq(S)
  BY DEF IsSequence
<1>2. s \in Seq(S \cup T)
  BY <1>1
<1>3. f \in Seq(S \cup T) /\ Len(f) = n
  OBVIOUS
<1>4. /\ s \o f \in Seq(S \cup T) /\ Len(s) \in Nat /\ Len(s \o f) = Len(s) + n
      /\ \A k \in 1..Len(s) : (s \o f)[k] = s[k]
      /\ \A k \in 1..n : (s \o f)[Len(s) + k] = f[k]
  BY <1>2, <1>3
<1>5. IsSequence(s \o f)
  BY <1>4 DEF IsSequence
<1> QED  BY <1>4, <1>5 DEF Extends

-----------------------------------------------------------------------------
\* The files.

LEMMA SpansPositive == \A l \in 0..3 : Span(l) \in Nat \ {0}
<1>1. \A a, b \in Nat \ {0} : a * b \in Nat \ {0}
  OBVIOUS
<1>2. PerBlock \in Nat \ {0}
  BY Ext2DataAssumption
<1>3. PerBlock * PerBlock \in Nat \ {0}
  BY <1>1, <1>2
<1>4. PerBlock * PerBlock * PerBlock \in Nat \ {0}
  BY <1>1, <1>2, <1>3
<1> QED  BY <1>2, <1>3, <1>4 DEF Span

LEMMA CeilDivNat == \A n \in Nat, d \in Nat \ {0} : CeilDiv(n, d) \in Nat
<1>1. \A n \in Nat, d \in Nat \ {0} : n + d - 1 \in Nat
  OBVIOUS
<1>2. \A n \in Nat, d \in Nat \ {0} : n \div d \in Nat
  OBVIOUS
<1> QED  BY <1>1, <1>2 DEF CeilDiv

LEMMA MetadataNat == \A n \in Nat : Metadata(n) \in Nat
<1> SUFFICES ASSUME NEW n \in Nat
             PROVE  Metadata(n) \in Nat
  OBVIOUS
<1>1. \A l \in 1..3 : FirstOf(l) \in Nat
  BY SpansPositive, Ext2DataAssumption DEF FirstOf
<1>2. \A l \in 1..3 : Above(n, l) \in Nat
  <2> SUFFICES ASSUME NEW l \in 1..3
               PROVE  Above(n, l) \in Nat
    OBVIOUS
  <2>1. CASE n <= FirstOf(l)
    BY <2>1 DEF Above
  <2>2. CASE ~(n <= FirstOf(l))
    <3> DEFINE m == IF n - FirstOf(l) < Span(l) THEN n - FirstOf(l) ELSE Span(l)
    <3>1. m \in Nat
      BY <1>1, <2>2, SpansPositive
    <3> HIDE DEF m
    <3>2. CeilDiv(m, Span(1)) \in Nat /\ CeilDiv(m, Span(2)) \in Nat
      BY <3>1, CeilDivNat, SpansPositive
    <3>3. Above(n, l) = 1 + IF l = 1 THEN 0
                            ELSE CeilDiv(m, Span(1)) + IF l = 2 THEN 0 ELSE CeilDiv(m, Span(2))
      BY <2>2 DEF Above, m
    <3> QED  BY <3>2, <3>3
  <2> QED  BY <2>1, <2>2
<1> QED  BY <1>2 DEF Metadata

\* The blocks counted are at least those of data, and fewer than the counter can count.
LEMMA FileCounts ==
  \A f \in Files : /\ f.kind = "file" /\ f.length \in 0..LengthBound
                   /\ f.total \in Nat /\ f.length <= f.total /\ f.total < Wrap
<1> SUFFICES ASSUME NEW f \in Files
             PROVE  /\ f.kind = "file" /\ f.length \in 0..LengthBound
                    /\ f.total \in Nat /\ f.length <= f.total /\ f.total < Wrap
  OBVIOUS
<1>1. PICK n \in 0..LengthBound, x \in {0, 1} :
          f = [kind |-> "file", length |-> n, total |-> n + Metadata(n) + x]
  BY DEF Files
<1>2. Metadata(n) \in Nat /\ n \in Nat
  BY MetadataNat, Ext2DataAssumption
<1>3. f.total < Wrap
  BY FilesAssumption
<1>4. f.kind = "file" /\ f.length = n /\ f.total = n + Metadata(n) + x
  BY <1>1
<1> QED  BY <1>2, <1>3, <1>4

LEMMA InodeCounts ==
  ASSUME inode \in Files \cup Links
  PROVE  /\ inode.length \in Nat /\ inode.total \in Nat
         /\ inode.kind = "file" => inode \in Files
<1>1. CASE inode \in Files
  BY <1>1, FileCounts, Ext2DataAssumption
<1>2. CASE inode \in Links
  BY <1>2, Ext2DataAssumption DEF Links
<1> QED  BY <1>1, <1>2

-----------------------------------------------------------------------------
\* The invariant.

TypeInv ==
    /\ inode \in Files \cup Links
    /\ pc \in {"idle", "direct", "levels", "corrupt"}
    /\ i \in Nat /\ remaining_blocks \in Nat /\ want \in Nat /\ level \in Nat
    /\ seek \in 0..inode.length
    /\ IsSequence(content) /\ IsSequence(got) /\ Len(got) = seek
    /\ failed \in BOOLEAN
    /\ pc \in {"idle", "direct"} => loops = <<>> /\ level = 0

\* The blocks that are still counted never exceed what the buffer has room for.
Counted ==
    inode.kind = "file" =>
        /\ pc # "corrupt"
        /\ Len(content) = i
        /\ pc = "direct" =>
              i <= inode.length /\ i <= NDirect /\ remaining_blocks = inode.total - i
        /\ pc = "levels" =>
              remaining_blocks = 0 \/ (i <= inode.total /\ remaining_blocks = inode.total - i)

\* A file that Sequential speaks of.
Short == inode.kind = "file" /\ inode.length <= NDirect + PerBlock /\ ~failed

\* The buffer begins with the file, as far as it is read.
Prefix == \A k \in 1..Len(content) : k <= inode.length => content[k] = <<0, k - 1>>

Complete == inode.length <= Len(content)

\* Unless the whole file is read, the walk is at the block that belongs to the next
\* place of the buffer.
OnTheWay ==
    pc = "levels" =>
        \/ Complete
        \/ /\ NDirect <= i /\ i < inode.length /\ remaining_blocks = inode.total - i
           /\ \/ level = 0 /\ loops = <<>> /\ i = NDirect
              \/ level = 1 /\ loops = <<[block |-> <<1, NDirect>>, j |-> i - NDirect]>>

Returned == \A k \in 1..Len(got) : got[k] = <<0, k - 1>>

IInv == TypeInv /\ Counted /\ (Short => Prefix /\ OnTheWay /\ Returned)

-----------------------------------------------------------------------------
\* Steps of the walk.

\* One block more: it is in the buffer, and counted.
LEMMA StoredBlock ==
  ASSUME TypeInv, Counted, pc \in {"direct", "levels"}, NEW x, Store(x), Count, i' = i + 1,
         UNCHANGED inode,
         inode.kind = "file" =>
             i < inode.total /\ remaining_blocks = inode.total - i
  PROVE  /\ i' \in Nat /\ remaining_blocks' \in Nat
         /\ IsSequence(content') /\ pc' \in {pc, "corrupt"}
         /\ inode.kind = "file" =>
               /\ pc' = pc /\ remaining_blocks' = inode.total - i'
               /\ i' <= inode.total
               /\ Len(content') = i' /\ content'[i + 1] = x
               /\ \A k \in 1..i : content'[k] = content[k]
<1>1. /\ inode.length \in Nat /\ inode.total \in Nat
      /\ inode.kind = "file" => inode.total < Wrap
  BY InodeCounts, FileCounts DEF TypeInv
<1>2. \A a \in Int, b \in Nat \ {0} : (a % b) \in Nat
  OBVIOUS
<1>3. \A a \in Nat, b \in Nat \ {0} : a < b => (a % b) = a
  OBVIOUS
<1>4. i \in Nat /\ remaining_blocks \in Nat /\ Wrap \in Nat \ {0} /\ IsSequence(content)
  BY Ext2DataAssumption DEF TypeInv
<1>5. remaining_blocks' \in Nat
  BY <1>2, <1>4 DEF Count
<1>6. IsSequence(content') /\ pc' \in {pc, "corrupt"} /\ i' \in Nat
  <2>1. IsSequence(Append(content, x))
    BY <1>4, Appending
  <2>2. \/ content' = Append(content, x) /\ pc' = pc
        \/ content' = content /\ pc' = "corrupt"
    BY DEF Store
  <2>3. IsSequence(content')
    BY <1>4, <2>1, <2>2, Zenon
  <2> QED  BY <1>4, <2>2, <2>3
<1>7. ASSUME inode.kind = "file"
      PROVE  /\ pc' = pc /\ content' = Append(content, x)
             /\ remaining_blocks' = remaining_blocks - 1
  <2>1. pc' = pc /\ content' = Append(content, x)
    <3>1. i < inode.total
      BY <1>7
    <3> QED  BY <3>1 DEF Store
  <2>2. remaining_blocks - 1 \in Nat /\ remaining_blocks - 1 < Wrap
    BY <1>1, <1>4, <1>7
  <2> QED  BY <1>3, <1>4, <2>1, <2>2 DEF Count
<1>8. ASSUME inode.kind = "file"
      PROVE  /\ Len(content') = i' /\ content'[i + 1] = x
             /\ \A k \in 1..i : content'[k] = content[k]
  <2>1. Len(content) = i
    BY <1>8 DEF Counted
  <2> QED  BY <1>4, <1>7, <1>8, <2>1, Appending
<1>9. ASSUME inode.kind = "file"
      PROVE  remaining_blocks' = inode.total - i' /\ i' <= inode.total
  BY <1>1, <1>4, <1>7, <1>9
<1> QED  BY <1>5, <1>6, <1>7, <1>8, <1>9

\* A block that belongs to the file's next place keeps the beginning of the buffer right,
\* and so does any block behind the file's end.
LEMMA PrefixGrows ==
  ASSUME TypeInv, inode.kind = "file", Len(content) = i, Prefix,
         Len(content)' = i + 1, NEW x, content'[i + 1] = x, UNCHANGED inode,
         \A k \in 1..i : content'[k] = content[k],
         i < inode.length => x = <<0, i>>
  PROVE  Prefix'
<1>1. i \in Nat /\ inode.length \in Nat
  BY InodeCounts DEF TypeInv
<1> SUFFICES ASSUME NEW k \in 1..i + 1, k <= inode.length
             PROVE  content'[k] = <<0, k - 1>>
  BY DEF Prefix
<1>2. CASE k = i + 1
  <2>1. i < inode.length /\ k - 1 = i
    BY <1>1, <1>2
  <2> QED  BY <1>2, <2>1
<1>3. CASE k # i + 1
  <2>1. k \in 1..i
    BY <1>1, <1>3
  <2> QED  BY <2>1 DEF Prefix
<1> QED  BY <1>2, <1>3

LEMMA Begins == Init => IInv
<1> SUFFICES ASSUME Init
             PROVE  IInv
  OBVIOUS
<1> USE EmptyIsOne DEF Init
<1>1. inode.length \in Nat
  BY InodeCounts
<1>2. TypeInv
  <2>1. IsSequence(content) /\ IsSequence(got)
    BY Zenon
  <2>2. Len(got) = 0 /\ seek = 0
    OBVIOUS
  <2>3. 0 \in 0..inode.length
    BY <1>1
  <2>4. Len(got) = seek /\ seek \in 0..inode.length
    BY <2>2, <2>3
  <2> HIDE EmptyIsOne
  <2> QED  BY <2>1, <2>4 DEF TypeInv
<1>3. Counted
  BY DEF Counted
<1>4. Prefix /\ OnTheWay /\ Returned
  BY DEF Prefix, OnTheWay, Returned
<1> QED  BY <1>2, <1>3, <1>4 DEF IInv


-----------------------------------------------------------------------------
\* Operations.

LEMMA ReadFileKeeps ==
  ASSUME IInv, NEW size \in Sizes, ReadFile(size)
  PROVE  IInv'
<1>1. /\ pc = "idle" /\ pc' = "direct" /\ i' = 0 /\ remaining_blocks' = inode.total
      /\ content' = <<>> /\ want' = size /\ level' = 0
      /\ UNCHANGED <<inode, seek, loops, got, failed>>
  BY DEF ReadFile
<1>2. /\ TypeInv /\ (Short => Returned) /\ inode.length \in Nat /\ inode.total \in Nat
      /\ NDirect \in Nat
  BY InodeCounts, Ext2DataAssumption DEF IInv, TypeInv
<1>3. size \in Nat
  BY Ext2DataAssumption
<1>4. IsSequence(content') /\ IsSequence(got')
  BY <1>1, <1>2, EmptyIsOne, Zenon DEF TypeInv
<1>5. Len(content') = 0
  BY <1>1
<1>6. TypeInv'
  BY <1>1, <1>2, <1>3, <1>4 DEF TypeInv
<1>7. Counted'
  BY <1>1, <1>2, <1>5 DEF Counted
<1>8. Prefix' /\ OnTheWay'
  BY <1>1, <1>5 DEF Prefix, OnTheWay
<1>9. (Short => Returned)'
  BY <1>1, <1>2 DEF Short, Returned
<1> QED  BY <1>6, <1>7, <1>8, <1>9 DEF IInv

\* A block of the file is not NONE.
LEMMA BlockOf ==
  ASSUME inode \in Files, NEW l \in 0..3, NEW k \in Nat
  PROVE  /\ k < inode.length => Block(l, k) = <<l, k>> /\ <<l, k>> # NONE /\ <<l, k>> # JUNK
         /\ k >= inode.length => Block(l, k) = NONE
<1>1. inode.length \in 0..LengthBound
  BY FileCounts
<1>2. k < inode.length => k \in 0..LengthBound
  BY <1>1, Ext2DataAssumption
<1>3. k >= inode.length => ~(k < inode.length)
  BY <1>1
<1>4. k < inode.length => <<l, k>> # NONE /\ <<l, k>> # JUNK
  BY <1>2, FilesAssumption
<1> QED  BY <1>3, <1>4 DEF Block

LEMMA ReadDirectKeeps ==
  ASSUME IInv, ReadDirect
  PROVE  IInv'
<1>1. /\ pc = "direct" /\ i < NDirect
      /\ UNCHANGED <<inode, seek, want, level, loops, got>>
  BY DEF ReadDirect
<1>2. /\ TypeInv /\ Counted /\ inode.length \in Nat /\ inode.total \in Nat /\ NDirect \in Nat
      /\ inode.kind = "file" =>
            inode \in Files /\ inode.length <= inode.total
  BY InodeCounts, FileCounts, Ext2DataAssumption DEF IInv, TypeInv
<1>3. inode.kind = "file" =>
        Len(content) = i /\ i <= inode.length /\ remaining_blocks = inode.total - i
  BY <1>1, <1>2 DEF Counted
<1>4. inode.kind = "file" => /\ Direct(i) = Block(0, i)
                             /\ i < inode.length => Direct(i) = <<0, i>> /\ Direct(i) # NONE
                             /\ i >= inode.length => Direct(i) = NONE
  <2>1. inode.kind = "file" => Direct(i) = Block(0, i)
    BY DEF Direct
  <2> QED  BY <1>2, <2>1, BlockOf DEF TypeInv
<1>5. Short' => Short
  BY <1>1, <1>2 DEF Short, ReadDirect, Reads
<1>6. Returned => Returned'
  BY <1>1 DEF Returned
<1>7. CASE Direct(i) = NONE
  <2>1. remaining_blocks' = 0 /\ pc' = "levels" /\ UNCHANGED <<i, content, failed>>
    BY <1>7 DEF ReadDirect
  <2>2. inode.kind = "file" => i >= inode.length
    BY <1>2, <1>4, <1>7 DEF TypeInv
  <2>3. TypeInv'
    BY <1>1, <1>2, <2>1 DEF TypeInv
  <2>4. Counted'
    BY <1>1, <1>2, <1>3, <2>1 DEF Counted
  <2>5. Short => Prefix' /\ OnTheWay'
    BY <1>1, <1>2, <1>3, <2>1, <2>2 DEF IInv, Short, Prefix, OnTheWay, Complete
  <2> QED  BY <1>5, <1>6, <2>3, <2>4, <2>5 DEF IInv
<1>8. CASE Direct(i) # NONE
  <2>1. PICK x \in {Direct(i), JUNK} : Reads(Direct(i), x) /\ Store(x)
    BY <1>8 DEF ReadDirect
  <2>2. i' = i + 1 /\ Count
    BY <1>8 DEF ReadDirect
  <2>3. inode.kind = "file" => i < inode.length /\ i < inode.total
    BY <1>2, <1>4, <1>8 DEF TypeInv
  <2>4. /\ i' \in Nat /\ remaining_blocks' \in Nat
        /\ IsSequence(content') /\ pc' \in {pc, "corrupt"}
        /\ inode.kind = "file" =>
              /\ pc' = pc /\ remaining_blocks' = inode.total - i'
              /\ i' <= inode.total
              /\ Len(content') = i' /\ content'[i + 1] = x
              /\ \A k \in 1..i : content'[k] = content[k]
    BY <1>1, <1>2, <1>3, <2>1, <2>2, <2>3, StoredBlock
  <2>5. failed' \in BOOLEAN
    BY <1>2, <2>1 DEF Reads, TypeInv
  <2>6. TypeInv'
    BY <1>1, <1>2, <2>4, <2>5 DEF TypeInv
  <2>7. Counted'
    <3> SUFFICES ASSUME inode.kind = "file"
                 PROVE  /\ pc' = "direct" /\ Len(content') = i'
                        /\ i' <= inode.length /\ i' <= NDirect
                        /\ remaining_blocks' = inode.total - i'
      BY <1>1 DEF Counted
    <3> QED  BY <1>1, <1>2, <2>2, <2>3, <2>4 DEF TypeInv
  <2>8. ASSUME Short'
        PROVE  Prefix' /\ OnTheWay'
    <3>1. Short /\ Prefix /\ inode.kind = "file"
      BY <1>5, <2>8 DEF IInv, Short
    <3>2. x = <<0, i>>
      BY <1>4, <2>1, <2>3, <2>8, <3>1 DEF Reads, Short
    <3>3. Prefix'
      BY <1>1, <1>2, <1>3, <2>2, <2>4, <3>1, <3>2, PrefixGrows
    <3>4. OnTheWay'
      BY <1>1, <2>4, <3>1 DEF OnTheWay
    <3> QED  BY <3>3, <3>4
  <2> QED  BY <1>5, <1>6, <2>6, <2>7, <2>8 DEF IInv
<1> QED  BY <1>7, <1>8

LEMMA EndDirectKeeps ==
  ASSUME IInv, EndDirect
  PROVE  IInv'
<1>1. /\ pc = "direct" /\ i = NDirect /\ pc' = "levels"
      /\ UNCHANGED <<inode, seek, want, i, remaining_blocks, level, loops, content, got, failed>>
  BY DEF EndDirect
<1>2. /\ TypeInv /\ Counted /\ inode.length \in Nat /\ inode.total \in Nat /\ NDirect \in Nat
      /\ inode.kind = "file" => inode.length <= inode.total
  BY InodeCounts, FileCounts, Ext2DataAssumption DEF IInv, TypeInv
<1>3. inode.kind = "file" =>
        /\ Len(content) = i /\ i <= inode.length /\ remaining_blocks = inode.total - i
  BY <1>1, <1>2 DEF Counted
<1>4. TypeInv'
  BY <1>1, <1>2 DEF TypeInv
<1>5. Counted'
  BY <1>1, <1>2, <1>3 DEF Counted
<1>6. Short => OnTheWay'
  BY <1>1, <1>2, <1>3 DEF Short, OnTheWay, Complete, TypeInv
<1>7. (Short' => Short) /\ (Prefix => Prefix') /\ (Returned => Returned')
  BY <1>1 DEF Short, Prefix, Returned
<1> QED  BY <1>4, <1>5, <1>6, <1>7 DEF IInv

LEMMA EnterLevelKeeps ==
  ASSUME IInv, EnterLevel
  PROVE  IInv'
<1> DEFINE block == IF inode.kind = "link" THEN NONE ELSE Block(level', FirstOf(level'))
<1>1. /\ pc = "levels" /\ loops = <<>> /\ level' = level + 1
      /\ UNCHANGED <<inode, seek, pc, want, i, remaining_blocks, content, got>>
  BY DEF EnterLevel
<1>2. \/ remaining_blocks = 0 /\ UNCHANGED <<loops, failed>>
      \/ /\ remaining_blocks # 0
         /\ \E x \in {block, JUNK} : Reads(block, x) /\ loops' = <<[block |-> x, j |-> 0]>>
  BY DEF EnterLevel
<1> HIDE DEF block
<1>3. /\ TypeInv /\ Counted /\ inode.length \in Nat /\ inode.total \in Nat /\ NDirect \in Nat
      /\ inode.kind = "file" => inode \in Files /\ inode.length <= inode.total
  BY InodeCounts, FileCounts, Ext2DataAssumption DEF IInv, TypeInv
<1>4. failed' \in BOOLEAN /\ (Short' => Short)
  BY <1>1, <1>2, <1>3 DEF TypeInv, Reads, Short
<1>5. TypeInv'
  BY <1>1, <1>3, <1>4 DEF TypeInv
<1>6. Counted'
  BY <1>1, <1>3 DEF Counted
<1>7. (Prefix => Prefix') /\ (Returned => Returned') /\ (Complete => Complete')
  BY <1>1 DEF Prefix, Returned, Complete
<1>8. ASSUME Short'
      PROVE  OnTheWay'
  <2>1. Short /\ OnTheWay /\ inode.kind = "file"
    BY <1>4, <1>8 DEF IInv, Short
  <2>2. CASE Complete
    BY <1>7, <2>2 DEF OnTheWay
  <2>3. CASE ~Complete
    <3>1. /\ NDirect <= i /\ i < inode.length /\ remaining_blocks = inode.total - i
          /\ \/ level = 0 /\ loops = <<>> /\ i = NDirect
             \/ level = 1 /\ loops = <<[block |-> <<1, NDirect>>, j |-> i - NDirect]>>
      BY <1>1, <2>1, <2>3 DEF OnTheWay
    <3>2. level = 0 /\ i = NDirect
      BY <1>1, <3>1
    <3>3. remaining_blocks # 0
      BY <1>3, <2>1, <3>1 DEF TypeInv
    <3>4. FirstOf(1) = NDirect
      BY <1>3 DEF FirstOf
    <3>5. block = <<1, NDirect>>
      <4>1. level' = 1
        BY <1>1, <3>2
      <4>2. block = Block(1, NDirect)
        BY <2>1, <3>4, <4>1 DEF block
      <4> QED  BY <1>3, <2>1, <3>1, <3>2, <4>2, BlockOf
    <3>6. loops' = <<[block |-> <<1, NDirect>>, j |-> 0]>>
      BY <1>2, <1>8, <3>3, <3>5 DEF Reads, Short
    <3>7. level' = 1 /\ i' - NDirect = 0
      BY <1>1, <1>3, <3>2
    <3> QED  BY <1>1, <3>1, <3>6, <3>7 DEF OnTheWay
  <2> QED  BY <2>2, <2>3
<1> QED  BY <1>4, <1>5, <1>6, <1>7, <1>8 DEF IInv


\* A block of data goes to the next place; if the file needs it, it is the right one.
LEMMA DataKeeps ==
  ASSUME IInv, NEW p, Data(p),
         pc = "levels", remaining_blocks # 0, UNCHANGED <<inode, seek, want, level, got>>,
         Short' /\ ~Complete => /\ p = <<0, i>>
                                /\ level' = 1
                                /\ loops' = <<[block |-> <<1, NDirect>>, j |-> i + 1 - NDirect]>>
  PROVE  IInv'
<1>1. /\ TypeInv /\ Counted /\ inode.length \in Nat /\ inode.total \in Nat /\ NDirect \in Nat
      /\ inode.kind = "file" => inode \in Files /\ inode.length <= inode.total
      /\ i \in Nat
  BY InodeCounts, FileCounts, Ext2DataAssumption DEF IInv, TypeInv
<1>2. PICK x \in {p, JUNK} : Reads(p, x) /\ Store(x)
  BY DEF Data
<1>3. i' = i + 1 /\ Count
  BY DEF Data
<1>4. inode.kind = "file" =>
        /\ Len(content) = i /\ i < inode.total /\ remaining_blocks = inode.total - i
  BY <1>1 DEF Counted
<1>5. /\ i' \in Nat /\ remaining_blocks' \in Nat
      /\ IsSequence(content') /\ pc' \in {pc, "corrupt"}
      /\ inode.kind = "file" =>
            /\ pc' = pc /\ remaining_blocks' = inode.total - i'
            /\ i' <= inode.total
            /\ Len(content') = i' /\ content'[i + 1] = x
            /\ \A k \in 1..i : content'[k] = content[k]
  BY <1>1, <1>2, <1>3, <1>4, StoredBlock
<1>6. failed' \in BOOLEAN /\ (Short' => Short)
  BY <1>1, <1>2 DEF TypeInv, Reads, Short
<1>7. TypeInv'
  BY <1>1, <1>5, <1>6 DEF TypeInv
<1>8. Counted'
  BY <1>1, <1>4, <1>5 DEF Counted
<1>9. Returned => Returned'
  BY DEF Returned
<1>10. ASSUME Short'
       PROVE  Prefix' /\ OnTheWay'
  <2>1. Short /\ Prefix /\ OnTheWay /\ inode.kind = "file"
    BY <1>6, <1>10 DEF IInv, Short
  <2>2. i < inode.length => ~Complete
    BY <1>1, <1>4, <2>1 DEF Complete
  <2>3. i < inode.length => x = <<0, i>>
    BY <1>2, <1>10, <2>2 DEF Reads, Short
  <2>4. Prefix'
    BY <1>1, <1>3, <1>4, <1>5, <2>1, <2>3, PrefixGrows
  <2>5. CASE ~(i' < inode.length)
    <3>1. Complete'
      BY <1>1, <1>5, <2>1, <2>5 DEF Complete
    <3> QED  BY <2>4, <3>1 DEF OnTheWay
  <2>6. CASE i' < inode.length
    <3>1. ~Complete
      BY <1>1, <1>3, <2>2, <2>6
    <3>2. /\ level' = 1
          /\ loops' = <<[block |-> <<1, NDirect>>, j |-> i' - NDirect]>>
      <4>1. /\ level' = 1
            /\ loops' = <<[block |-> <<1, NDirect>>, j |-> i + 1 - NDirect]>>
        BY <1>10, <3>1
      <4>2. i' - NDirect = i + 1 - NDirect
        BY <1>1, <1>3
      <4> QED  BY <4>1, <4>2
    <3>3. NDirect <= i
      BY <2>1, <3>1 DEF OnTheWay
    <3>4. NDirect <= i'
      BY <1>1, <1>3, <3>3
    <3>5. remaining_blocks' = inode'.total - i'
      BY <1>5, <2>1
    <3>6. i' < inode'.length
      BY <2>6
    <3> QED  BY <2>4, <3>2, <3>4, <3>5, <3>6 DEF OnTheWay
  <2> QED  BY <2>5, <2>6
<1> QED  BY <1>6, <1>7, <1>8, <1>9, <1>10 DEF IInv

\* As long as blocks of the file are missing, the loop is in its block of pointers, at
\* the pointer to the next.
LEMMA NextPointer ==
  ASSUME IInv, Short, ~Complete, pc = "levels", loops # <<>>
  PROVE  /\ remaining_blocks # 0
         /\ level = 1 /\ loops = <<[block |-> <<1, NDirect>>, j |-> i - NDirect]>>
         /\ PointersAt(Last(loops).block, Last(loops).j) = {<<0, i>>}
         /\ <<0, i>> # NONE
         /\ Depth = 0
<1>1. /\ TypeInv /\ inode.length \in Nat /\ inode.total \in Nat /\ NDirect \in Nat
      /\ inode \in Files /\ inode.length <= inode.total
      /\ i \in Nat /\ PerBlock \in Nat /\ PastBound \in Nat
  BY InodeCounts, FileCounts, Ext2DataAssumption DEF IInv, TypeInv, Short
<1>2. /\ NDirect <= i /\ i < inode.length /\ remaining_blocks = inode.total - i
      /\ level = 1 /\ loops = <<[block |-> <<1, NDirect>>, j |-> i - NDirect]>>
  BY DEF IInv, OnTheWay
<1>3. remaining_blocks # 0
  BY <1>1, <1>2
<1>4. Len(loops) = 1 /\ Last(loops) = [block |-> <<1, NDirect>>, j |-> i - NDirect]
  BY <1>2 DEF Last
<1>5. Depth = 0
  BY <1>2, <1>4 DEF Depth
<1>6. Block(0, i) = <<0, i>> /\ <<0, i>> # NONE
  BY <1>1, <1>2, BlockOf
<1>7. <<1, NDirect>> # NONE /\ <<1, NDirect>> # JUNK
  <2>1. NDirect < inode.length
    BY <1>1, <1>2
  <2> QED  BY <1>1, <2>1, BlockOf
<1>8. i - NDirect < PerBlock /\ ~(i - NDirect >= PerBlock) /\ ~(i - NDirect >= PerBlock + PastBound)
  BY <1>1, <1>2 DEF Short
<1>9. NDirect + (i - NDirect) * Span(0) = i
  <2>1. Span(0) = 1
    BY DEF Span
  <2> QED  BY <1>1, <2>1
<1>10. PointersAt(<<1, NDirect>>, i - NDirect) = {<<0, i>>}
  <2>1. PointersAt(<<1, NDirect>>, i - NDirect) = {Block(1 - 1, NDirect + (i - NDirect) * Span(1 - 1))}
    BY <1>7, <1>8 DEF PointersAt
  <2>2. 1 - 1 = 0
    OBVIOUS
  <2> QED  BY <1>6, <1>9, <2>1, <2>2
<1> QED  BY <1>2, <1>3, <1>4, <1>5, <1>6, <1>10

\* The end of a loop, or the way down to another, stores nothing.
LEMMA NothingStored ==
  ASSUME IInv, pc = "levels", failed' \in BOOLEAN, ~failed' => ~failed,
         UNCHANGED <<inode, seek, pc, want, i, remaining_blocks, level, content, got>>,
         Short' => Complete
  PROVE  IInv'
<1>1. TypeInv' /\ Counted'
  BY DEF IInv, TypeInv, Counted
<1>2. Short' => Short
  BY DEF Short
<1>3. (Prefix => Prefix') /\ (Returned => Returned') /\ (Complete => Complete')
  BY DEF Prefix, Returned, Complete
<1> QED  BY <1>1, <1>2, <1>3 DEF IInv, OnTheWay

LEMMA WalkKeeps ==
  ASSUME IInv, Walk
  PROVE  IInv'
<1>1. pc = "levels" /\ loops # <<>> /\ UNCHANGED <<inode, boot, seek, want, level, got>>
  BY DEF Walk
<1>2. TypeInv
  BY DEF IInv
<1>3. ASSUME Leave, Short' => Complete
      PROVE  IInv'
  BY <1>1, <1>2, <1>3, NothingStored DEF Leave, TypeInv
<1>4. CASE remaining_blocks = 0
  <2>1. Leave
    BY <1>4 DEF Walk
  <2>2. Short' => Short
    BY <1>1, <2>1 DEF Leave, Short
  <2>3. Short => Complete
    BY <1>1, <1>4, NextPointer
  <2> QED  BY <1>3, <2>1, <2>2, <2>3
<1>5. CASE remaining_blocks # 0
  <2>1. PICK p \in PointersAt(Last(loops).block, Last(loops).j) :
            \/ p = NONE /\ Leave
            \/ p # NONE /\ Depth = 0 /\ Data(p)
            \/ p # NONE /\ Depth # 0 /\ Descend(p)
    BY <1>5 DEF Walk
  <2>2. CASE p = NONE /\ Leave
    <3>1. Short' => Short
      BY <1>1, <2>2 DEF Leave, Short
    <3>2. Short => Complete
      BY <1>1, <2>1, <2>2, NextPointer
    <3> QED  BY <1>3, <2>2, <3>1, <3>2
  <2>3. CASE Depth = 0 /\ Data(p)
    <3>1. PICK x \in {p, JUNK} : Reads(p, x)
      BY <2>3 DEF Data
    <3>2. Short' => Short
      BY <1>1, <3>1 DEF Reads, Short
    <3>3. ASSUME Short', ~Complete
          PROVE  /\ p = <<0, i>> /\ level' = 1
                 /\ loops' = <<[block |-> <<1, NDirect>>, j |-> i + 1 - NDirect]>>
      <4>1. /\ level = 1 /\ loops = <<[block |-> <<1, NDirect>>, j |-> i - NDirect]>>
            /\ p = <<0, i>>
        BY <1>1, <2>1, <3>2, <3>3, NextPointer
      <4>2. loops' = [loops EXCEPT ![Len(loops)].j = @ + 1]
        BY <1>1, <2>3 DEF Data, Advanced
      <4>3. Len(loops) = 1
        BY <4>1
      <4>4. i \in Nat /\ NDirect \in Nat
        BY <1>2, Ext2DataAssumption DEF TypeInv
      <4>5. i - NDirect + 1 = i + 1 - NDirect
        BY <4>4
      <4>6. loops' = <<[block |-> <<1, NDirect>>, j |-> (i - NDirect) + 1]>>
        BY <4>1, <4>2, <4>3
      <4> QED  BY <1>1, <4>1, <4>4, <4>6
    <3> QED  BY <1>1, <1>5, <2>3, <3>3, DataKeeps
  <2>4. CASE Depth # 0 /\ Descend(p)
    <3>1. PICK x \in {p, JUNK} : Reads(p, x)
      BY <2>4 DEF Descend
    <3>2. failed' \in BOOLEAN /\ (Short' => Short) /\ (~failed' => ~failed)
      BY <1>1, <1>2, <3>1 DEF Reads, Short, TypeInv
    <3>3. Short => Complete
      BY <1>1, <2>4, NextPointer
    <3> QED  BY <1>1, <2>4, <3>2, <3>3, NothingStored DEF Descend
  <2> QED  BY <2>1, <2>2, <2>3, <2>4
<1> QED  BY <1>4, <1>5

LEMMA FinishKeeps ==
  ASSUME IInv, Finish
  PROVE  IInv'
<1> DEFINE Part(k) == IF seek + k <= Len(content) THEN content[seek + k] ELSE JUNK
           part == [k \in 1..ReadSize |-> Part(k)]
<1>1. /\ pc = "levels" /\ loops = <<>> /\ level = 3
      /\ got' = got \o part
      /\ seek' = seek + ReadSize
      /\ content' = <<>> /\ i' = 0 /\ remaining_blocks' = 0 /\ level' = 0 /\ want' = 0
      /\ pc' = "idle"
      /\ UNCHANGED <<inode, loops, failed>>
  BY DEF Finish
<1>. HIDE DEF Part
<1>2. TypeInv /\ inode.length \in Nat /\ seek \in Nat /\ seek <= inode.length /\ want \in Nat
  BY InodeCounts DEF IInv, TypeInv
<1>3. ReadSize \in Nat /\ seek + ReadSize <= inode.length
  BY <1>2 DEF ReadSize
<1>4. /\ IsSequence(got') /\ Len(got') = Len(got) + ReadSize
      /\ \A k \in 1..Len(got) : got'[k] = got[k]
      /\ \A k \in 1..ReadSize : got'[Len(got) + k] = Part(k)
  <2> DEFINE T == {Part(k) : k \in 1..ReadSize}
  <2>1. /\ part \in [1..ReadSize -> T]
        /\ \A k \in 1..ReadSize : part[k] = Part(k)
    OBVIOUS
  <2> HIDE DEF part, T
  <2>2. IsSequence(got)
    BY <1>2 DEF TypeInv
  <2>3. Extends(got \o part, got, ReadSize, part)
    BY <1>3, <2>1, <2>2, Concatenating, Zenon
  <2>4. got' = got \o part
    BY <1>1
  <2> QED  BY <2>1, <2>3, <2>4 DEF Extends
<1>5. Len(got) = seek /\ Len(got') = seek'
  BY <1>1, <1>2, <1>4 DEF TypeInv
<1>6. IsSequence(content') /\ Len(content') = 0
  BY <1>1, EmptyIsOne
<1>7. TypeInv'
  <2>1. seek' \in 0..inode'.length
    BY <1>1, <1>2, <1>3
  <2> QED  BY <1>1, <1>2, <1>4, <1>5, <1>6, <2>1 DEF TypeInv
<1>8. Counted'
  BY <1>1, <1>6 DEF Counted
<1>9. Prefix' /\ OnTheWay'
  BY <1>1, <1>6 DEF Prefix, OnTheWay
<1>10. Short' => Returned'
  <2> SUFFICES ASSUME Short
               PROVE  Returned'
    BY <1>1 DEF Short
  <2>1. Prefix /\ OnTheWay /\ Returned
    BY DEF IInv
  <2>2. Complete
    BY <1>1, <2>1 DEF OnTheWay
  <2>3. Len(content) \in Nat
    BY <1>2, Appending DEF TypeInv
  <2>4. \A k \in 1..ReadSize : Part(k) = <<0, seek + k - 1>>
    <3> SUFFICES ASSUME NEW k \in 1..ReadSize
                 PROVE  Part(k) = <<0, seek + k - 1>>
      OBVIOUS
    <3>1. seek + k \in 1..Len(content) /\ seek + k <= inode.length
      BY <1>2, <1>3, <2>2, <2>3 DEF Complete
    <3>2. content[seek + k] = <<0, (seek + k) - 1>>
      BY <2>1, <3>1 DEF Prefix
    <3>3. Part(k) = content[seek + k]
      BY <3>1 DEF Part
    <3>4. (seek + k) - 1 = seek + k - 1
      BY <1>2
    <3> QED  BY <3>2, <3>3, <3>4
  <2>5. \A k \in 1..Len(got') : k \in 1..seek \/ (k - seek \in 1..ReadSize /\ seek + (k - seek) = k)
    BY <1>1, <1>2, <1>3, <1>5
  <2> SUFFICES ASSUME NEW k \in 1..Len(got')
               PROVE  got'[k] = <<0, k - 1>>
    BY DEF Returned
  <2>6. CASE k \in 1..seek
    BY <1>4, <1>5, <2>1, <2>6 DEF Returned
  <2>7. CASE k - seek \in 1..ReadSize /\ seek + (k - seek) = k
    BY <1>4, <1>5, <2>4, <2>7
  <2> QED  BY <2>5, <2>6, <2>7
<1> QED  BY <1>7, <1>8, <1>9, <1>10 DEF IInv

-----------------------------------------------------------------------------
LEMMA InvariantKept == Spec => []IInv
<1>1. IInv /\ [Next]_vars => IInv'
  <2> SUFFICES ASSUME IInv, [Next]_vars
               PROVE  IInv'
    OBVIOUS
  <2>1. CASE UNCHANGED vars
    BY <2>1 DEF vars, IInv, TypeInv, Counted, Short, Prefix, OnTheWay, Returned, Complete
  <2> QED
    BY <2>1, ReadFileKeeps, ReadDirectKeeps, EndDirectKeeps, EnterLevelKeeps, WalkKeeps,
       FinishKeeps DEF Next
<1> QED  BY <1>1, Begins, PTL DEF Spec

\* Whatever pointers and contents the disk has, and wherever reads fail, the walk over a
\* file's blocks stays within the buffer that ext2_read_file allocated.
THEOREM WalkStaysInBuffer == Spec => []StaysInBuffer
<1>1. IInv => StaysInBuffer
  <2> SUFFICES ASSUME IInv, pc = "corrupt"
               PROVE  inode.kind = "link"
    BY DEF StaysInBuffer
  <2>1. inode.kind # "file" /\ inode \in Files \cup Links
    BY DEF IInv, TypeInv, Counted
  <2> QED  BY <2>1, FileCounts DEF Links
<1> QED  BY <1>1, InvariantKept, PTL

\* Calls of fread return the blocks of a file that is not too large one after the other
\* from the first, in whatever portions.
THEOREM FilesAreSequential == Spec => []Sequential
<1>1. IInv => Sequential
  BY DEF IInv, Sequential, Short, Returned
<1> QED  BY <1>1, InvariantKept, PTL


-----------------------------------------------------------------------------
\* Directories.

LEMMA Division ==
  ASSUME NEW a \in Nat, NEW p \in Nat \ {0}
  PROVE  /\ a \div p \in Nat /\ a % p \in 0..p - 1
         /\ a = (a \div p) * p + (a % p)
<1>1. \A b \in Nat \ {0} : a \div b \in Nat /\ a % b \in 0..b - 1 /\ a = b * (a \div b) + (a % b)
  OBVIOUS
<1>2. \A b \in Nat \ {0}, q \in Nat : b * q = q * b
  OBVIOUS
<1> QED  BY <1>1, <1>2

LEMMA DivisionOf ==
  ASSUME NEW q \in Nat, NEW p \in Nat, NEW r \in 0..p - 1
  PROVE  (q * p + r) \div p = q /\ (q * p + r) % p = r
OBVIOUS

\* The descriptor that is read for a group, of blocks of b bytes and d descriptors, of
\* which c lie before the first.
DescriptorOf(g, d, b, c) == ((c + (g * 32) \div b) * b + ((g % d) * 32 - c * b)) \div 32

\* A group's descriptor, of 32 bytes, lies whole in a block of d descriptors, and is the
\* group's.
LEMMA DescriptorIndex ==
  ASSUME NEW g \in Nat, NEW d \in Nat \ {0}, NEW b, b = d * 32, NEW c \in Nat
  PROVE  DescriptorOf(g, d, b, c) = g
<1> DEFINE q == g \div d
           r == g % d
<1>1. q \in Nat /\ r \in 0..d - 1 /\ g = q * d + r
  BY Division
<1> HIDE DEF q, r
<1>2. b \in Nat /\ r * 32 \in 0..b - 1
  BY <1>1
<1>3. g * 32 = q * b + r * 32
  <2>1. \A x, y, z \in Nat : (x * y + z) * 32 = x * (y * 32) + z * 32
    OBVIOUS
  <2> QED  BY <1>1, <2>1
<1>4. (g * 32) \div b = q
  BY <1>1, <1>2, <1>3, DivisionOf
<1>5. (c + q) * b + (r * 32 - c * b) = g * 32
  <2>1. \A x, y, z \in Nat, w \in Int : (x + y) * z + (w - x * z) = y * z + w
    OBVIOUS
  <2>2. (c + q) * b + (r * 32 - c * b) = q * b + r * 32
    BY <1>1, <1>2, <2>1
  <2> QED  BY <1>3, <2>2
<1>6. (g * 32) \div 32 = g
  OBVIOUS
<1> QED  BY <1>4, <1>5, <1>6 DEF r, DescriptorOf

\* Inodes of a group lie one behind the other from its table on, none in another table.
Record(g, x, b, s) == (1000 + 7 * g) * b + x * s

LEMMA RecordsApart ==
  ASSUME NEW b \in Nat \ {0}, NEW s \in Nat \ {0}, NEW p \in Nat \ {0}, p * s <= 7 * b,
         NEW g \in Nat, NEW h \in Nat, NEW x \in 0..p - 1, NEW y \in 0..p - 1,
         Record(g, x, b, s) = Record(h, y, b, s)
  PROVE  g = h /\ x = y
<1>1. \A z \in 0..p - 1 : z * s \in 0..7 * b - 1
  <2> SUFFICES ASSUME NEW z \in 0..p - 1
               PROVE  z * s \in 0..7 * b - 1
    OBVIOUS
  <2>1. \A u, v, w \in Nat : u <= v => u * w <= v * w
    OBVIOUS
  <2>2. (z + 1) * s <= p * s
    BY <2>1
  <2>3. (z + 1) * s = z * s + s
    OBVIOUS
  <2>4. z * s \in Nat /\ p * s \in Nat
    OBVIOUS
  <2> QED  BY <2>2, <2>3, <2>4
<1> DEFINE t == 7 * b
<1>2. \A u, v \in Nat : Record(u, v, b, s) = 1000 * b + (u * t + v * s)
  <2>1. \A u \in Nat, w \in Int : (1000 + 7 * u) * b + w = 1000 * b + (u * (7 * b) + w)
    OBVIOUS
  <2> QED  BY <2>1 DEF Record
<1>3. t \in Nat
  OBVIOUS
<1> HIDE DEF t
<1>4. g * t + x * s = h * t + y * s
  <2>1. \A u, v \in Nat : u * t \in Nat /\ v * s \in Nat
    BY <1>3
  <2>2. 1000 * b + (g * t + x * s) = 1000 * b + (h * t + y * s)
    BY <1>2
  <2>3. \A u, v, w \in Nat : w + u = w + v => u = v
    OBVIOUS
  <2>4. 1000 * b \in Nat /\ g * t + x * s \in Nat /\ h * t + y * s \in Nat
    BY <2>1
  <2> QED  BY <2>2, <2>3, <2>4
<1>5. x * s \in 0..t - 1 /\ y * s \in 0..t - 1
  BY <1>1 DEF t
<1>6. g = h /\ x * s = y * s
  <2> DEFINE e == x * s
             f == y * s
  <2>1. g * t + e = h * t + f /\ e \in 0..t - 1 /\ f \in 0..t - 1
    BY <1>4, <1>5
  <2> HIDE DEF e, f
  <2>2. /\ (g * t + e) \div t = g /\ (g * t + e) % t = e
        /\ (h * t + f) \div t = h /\ (h * t + f) % t = f
    BY <1>3, <2>1, DivisionOf
  <2>3. g = h /\ e = f
    BY <2>1, <2>2
  <2> QED  BY <2>3 DEF e, f
<1>7. \A z \in Nat : (z * s + 0) \div s = z
  BY DivisionOf
<1>8. x = y
  <2>1. x * s + 0 = y * s + 0
    BY <1>6
  <2> QED  BY <1>7, <2>1
<1> QED  BY <1>6, <1>8

\* What ext2_get_inode reads is the inode it was asked for.
LEMMA InodeIsFound ==
  ASSUME NEW s, IsSuperblock(s), superblock = s, IsTree(tree), NEW k \in DOMAIN tree
  PROVE  ext2_get_inode(k) = k
<1> DEFINE b == s.block_size
           p == s.inodes_per_group
           z == s.inode_size
           d == b \div 32
           c == IF b = 1024 THEN 2 ELSE 1
           group(m) == (m - 1) \div p
           index(m) == (m - 1) % p
<1>1. /\ b \in Nat \ {0} /\ p \in Nat \ {0} /\ z \in Nat \ {0}
      /\ b >= 1024 /\ b % 32 = 0 /\ p * z <= 7 * b
  BY DEF IsSuperblock, DescriptorSize, TableBlocks
<1> HIDE DEF b, p, z
<1>2. d \in Nat \ {0} /\ b = d * 32
  <2>1. \A a \in Nat : a >= 1024 /\ a % 32 = 0 => a \div 32 \in Nat \ {0} /\ a = (a \div 32) * 32
    OBVIOUS
  <2> QED  BY <1>1, <2>1
<1>3. 1024 \div b + 1 = c
  BY <1>1
<1>4. \A m \in DOMAIN tree : /\ m - 1 \in Nat /\ m \in Nat /\ group(m) \in Nat
                             /\ index(m) \in 0..p - 1
                             /\ m - 1 = group(m) * p + index(m)
  <2> SUFFICES ASSUME NEW m \in DOMAIN tree
               PROVE  /\ m - 1 \in Nat /\ m \in Nat /\ group(m) \in Nat
                      /\ index(m) \in 0..p - 1
                      /\ m - 1 = group(m) * p + index(m)
    OBVIOUS
  <2>1. m \in Nat \ {0}
    BY DEF IsTree
  <2>2. m - 1 \in Nat
    BY <2>1
  <2>3. /\ (m - 1) \div p \in Nat /\ (m - 1) % p \in 0..p - 1
        /\ m - 1 = ((m - 1) \div p) * p + ((m - 1) % p)
    BY <1>1, <2>2, Division
  <2> QED  BY <2>1, <2>2, <2>3
<1>5. \A m : PlaceOf(m) = Record(group(m), index(m), b, z)
  BY DEF PlaceOf, TableAt, TableBlocks, Record, b, p, z
<1> DEFINE read == DescriptorOf(group(k), d, b, c)
           w == index(k) * z
<1>6. ext2_get_inode(k) = InodeAt((1000 + 7 * read + w \div b) * b + (w % b))
  BY <1>3 DEF ext2_get_inode, TableAt, TableBlocks, Descriptor,
              DescriptorSize, DescriptorsAt, DescriptorOf, b, p, z
<1>7. c \in Nat
  OBVIOUS
<1> HIDE DEF d, c, group, index
<1>8. read = group(k)
  <2>1. group(k) \in Nat
    BY <1>4
  <2> QED  BY <1>2, <1>7, <2>1, DescriptorIndex
<1> HIDE DEF read
<1>9. (1000 + 7 * read + w \div b) * b + (w % b) = Record(group(k), index(k), b, z)
  <2>1. w \in Nat
    <3>1. index(k) \in Nat
      BY <1>1, <1>4
    <3> QED  BY <1>1, <3>1
  <2> HIDE DEF w
  <2>2. w \div b \in Nat /\ w % b \in Nat /\ w = (w \div b) * b + (w % b)
    BY <1>1, <2>1, Division
  <2>3. \A x, y, u, v \in Nat : (x + y) * u + v = x * u + (y * u + v)
    OBVIOUS
  <2>4. 1000 + 7 * read \in Nat
    BY <1>4, <1>8
  <2>5. ((1000 + 7 * read) + w \div b) * b + (w % b) = (1000 + 7 * read) * b + w
    BY <1>1, <2>2, <2>3, <2>4
  <2> QED  BY <1>8, <2>5 DEF Record, w
<1>10. ext2_get_inode(k) = InodeAt(PlaceOf(k))
  BY <1>5, <1>6, <1>9
<1>11. \A m \in DOMAIN tree : PlaceOf(m) = PlaceOf(k) => m = k
  <2> SUFFICES ASSUME NEW m \in DOMAIN tree, PlaceOf(m) = PlaceOf(k)
               PROVE  m = k
    OBVIOUS
  <2>1. Record(group(m), index(m), b, z) = Record(group(k), index(k), b, z)
    BY <1>5
  <2>5. \A g, h \in Nat, x, y \in 0..p - 1 :
            Record(g, x, b, z) = Record(h, y, b, z) => g = h /\ x = y
    BY <1>1, RecordsApart
  <2>2. /\ group(m) \in Nat /\ index(m) \in 0..p - 1
        /\ group(k) \in Nat /\ index(k) \in 0..p - 1
    BY <1>4
  <2>3. group(m) = group(k) /\ index(m) = index(k)
    BY <2>1, <2>2, <2>5
  <2>4. m - 1 = k - 1
    BY <1>4, <2>3
  <2> QED  BY <1>4, <2>4
<1>12. InodeAt(PlaceOf(k)) = k
  BY <1>11 DEF InodeAt
<1> QED  BY <1>10, <1>12


-----------------------------------------------------------------------------
\* Where a path leads.

\* A nonempty set of numbers has a least element.
LEMMA Least ==
  ASSUME NEW T, T \subseteq Nat, T # {}
  PROVE  \E x \in T : \A y \in T : x <= y
<1> DEFINE R == OpToRel(<, Nat)
<1>1. IsWellFoundedOn(R, Nat)
  BY NatLessThanWellFounded
<1>2. \A x, y \in Nat : <<y, x>> \in R <=> y < x
  BY DEF OpToRel
<1> HIDE DEF R
<1>3. PICK x \in T : \A y \in T : ~(<<y, x>> \in R)
  BY <1>1, WFMin
<1>4. ASSUME NEW y \in T PROVE x <= y
  BY <1>2, <1>3, x \in Nat /\ y \in Nat /\ ~(y < x)
<1> QED  BY <1>4

\* The recursion of Reached has a solution, so Reached is one: of the numbers up to which
\* it had none there would be a least.
LEMMA ReachedIs ==
  ASSUME NEW t, NEW p, Len(p) \in Nat
  PROVE  /\ Reached(t, p)[0] = 2
         /\ \A m \in 1..Len(p) :
              Reached(t, p)[m] =
                  IF Reached(t, p)[m - 1] = NULL THEN NULL
                  ELSE Named(t, Reached(t, p)[m - 1], p[m])
<1> DEFINE step(x, m) == IF x = NULL THEN NULL ELSE Named(t, x, p[m])
           solves(g, l) == g = [m \in 0..l |-> IF m = 0 THEN 2 ELSE step(g[m - 1], m)]
           T == {l \in Nat : ~ \E g : solves(g, l)}
<1>1. T = {}
  <2> SUFFICES ASSUME T # {} PROVE FALSE
    OBVIOUS
  <2>1. PICK l \in T : \A m \in T : l <= m
    <3>1. T \subseteq Nat
      OBVIOUS
    <3> QED  BY <3>1, Least
  <2>2. CASE l = 0
    <3> DEFINE g == [m \in 0..0 |-> 2]
    <3>1. solves(g, 0)
      <4> HIDE DEF step
      <4> QED  OBVIOUS
    <3> QED  BY <2>1, <2>2, <3>1
  <2>3. CASE l # 0
    <3>1. l - 1 \in Nat /\ l - 1 \notin T
      <4>1. l \in Nat
        BY <2>1
      <4> HIDE DEF T
      <4> QED  BY <2>1, <2>3, <4>1
    <3>2. PICK g : solves(g, l - 1)
      <4> HIDE DEF solves
      <4> QED  BY <3>1
    <3> DEFINE h == [m \in 0..l |-> IF m = l THEN step(g[l - 1], l) ELSE g[m]]
    <3>3. \A m \in 0..l : h[m] = IF m = 0 THEN 2 ELSE step(h[m - 1], m)
      <4>1. l \in Nat
        BY <2>1
      <4>2. \A m \in 0..l - 1 : g[m] = IF m = 0 THEN 2 ELSE step(g[m - 1], m)
        <5> HIDE DEF step
        <5> QED  BY <3>2
      <4> HIDE DEF step
      <4> QED  BY <4>1, <4>2, <2>3
    <3>4. solves(h, l)
      <4> HIDE DEF step
      <4>1. h = [m \in 0..l |-> h[m]]
        OBVIOUS
      <4> HIDE DEF h
      <4> QED  BY <3>3, <4>1
    <3> QED  BY <2>1, <3>4
  <2> QED  BY <2>2, <2>3
<1>2. \E g : solves(g, Len(p))
  BY <1>1
<1>3. solves(Reached(t, p), Len(p))
  <2> DEFINE good(g) ==
        g = [m \in 0..Len(p) |->
                IF m = 0 THEN 2
                ELSE IF g[m - 1] = NULL THEN NULL ELSE Named(t, g[m - 1], p[m])]
  <2>1. \E g : good(g)
    BY <1>2
  <2>2. good(CHOOSE g : good(g))
    <3> HIDE DEF good
    <3> QED  BY <2>1
  <2>3. Reached(t, p) = CHOOSE g : good(g)
    BY DEF Reached, EXT2_ROOT_INODE
  <2> QED  BY <2>2, <2>3
<1> HIDE DEF T
<1> DEFINE f == Reached(t, p)
<1> HIDE DEF f, step
<1>4. f = [m \in 0..Len(p) |-> IF m = 0 THEN 2 ELSE step(f[m - 1], m)]
  BY <1>3 DEF f
<1>5. f[0] = 2
  BY <1>4
<1>6. ASSUME NEW m \in 1..Len(p) PROVE f[m] = step(f[m - 1], m)
  <2>1. m \in 0..Len(p) /\ m # 0
    OBVIOUS
  <2> QED  BY <1>4, <2>1
<1> QED  BY <1>5, <1>6 DEF f, step

\* Nowhere leads nowhere.
LEMMA NowhereOn ==
  ASSUME NEW t, NEW p, Len(p) \in Nat, NEW j \in 0..Len(p), Reached(t, p)[j] = NULL
  PROVE  Lookup(t, p) = NULL
<1> DEFINE way == Reached(t, p)
           T == {m \in j..Len(p) : way[m] # NULL}
<1>1. \A m \in 1..Len(p) : way[m - 1] = NULL => way[m] = NULL
  BY ReachedIs
<1>2. way[j] = NULL
  OBVIOUS
<1> HIDE DEF way
<1>3. T = {}
  <2> SUFFICES ASSUME T # {} PROVE FALSE
    OBVIOUS
  <2>1. PICK m \in T : \A x \in T : m <= x
    <3>1. T \subseteq Nat
      OBVIOUS
    <3> QED  BY <3>1, Least
  <2>2. m \in j + 1..Len(p) /\ m \in 1..Len(p) /\ m - 1 \in j..Len(p) /\ m - 1 \notin T
    BY <1>2, <2>1
  <2>3. way[m - 1] = NULL
    BY <2>2
  <2> QED  BY <1>1, <2>1, <2>2, <2>3
<1>4. Len(p) \in j..Len(p)
  OBVIOUS
<1>5. way[Len(p)] = NULL
  BY <1>3, <1>4
<1> QED  BY <1>5 DEF way, Lookup

\* The entry with a name is the only one.
LEMMA NamedIs ==
  ASSUME NEW t, IsTree(t), NEW k \in DOMAIN t, t[k].type = "dir",
         NEW e \in Range(t[k].entries), e.inode # 0
  PROVE  Named(t, k, e.name) = e.inode
<1> DEFINE good(x) == x.inode # 0 /\ x.name = e.name
           R == Range(t[k].entries)
<1>1. \A x, y \in R : x.inode # 0 /\ y.inode # 0 /\ x.name = y.name => x = y
  BY DEF IsTree
<1>2. good(e) /\ e \in R
  OBVIOUS
<1>3. (CHOOSE x \in R : good(x)) = e
  <2> HIDE DEF R
  <2>1. \A x \in R : good(x) => x = e
    BY <1>1, <1>2
  <2> HIDE DEF good
  <2> QED  BY <1>2, <2>1
<1> QED  BY <1>2, <1>3 DEF Named

LEMMA NamedNot ==
  ASSUME NEW t, NEW k, NEW name,
         t[k].type = "dir" =>
             \A e \in Range(t[k].entries) : e.inode # 0 => e.name # name
  PROVE  Named(t, k, name) = NULL
<1>1. ~(t[k].type = "dir" /\ \E e \in Range(t[k].entries) : e.inode # 0 /\ e.name = name)
  OBVIOUS
<1> QED  BY <1>1 DEF Named

\* Of an inode's entries.
LEMMA EntriesAre ==
  ASSUME NEW t, IsTree(t), NEW k \in DOMAIN t
  PROVE  /\ Len(t[k].entries) \in Nat
         /\ Range(t[k].entries) = {t[k].entries[j] : j \in 1..Len(t[k].entries)}
         /\ \A j \in 1..Len(t[k].entries) :
               /\ t[k].entries[j].name \in Seq(STRING)
               /\ t[k].entries[j].inode # 0 => t[k].entries[j].inode \in DOMAIN t
<1> DEFINE S == [name : Seq(STRING), inode : DOMAIN t \cup {0}]
           s == t[k].entries
<1>1. s \in Seq(S)
  BY DEF IsTree
<1>2. \A x \in S : x.name \in Seq(STRING) /\ x.inode \in DOMAIN t \cup {0}
  OBVIOUS
<1> HIDE DEF S, s
<1>3. /\ Len(s) \in Nat /\ DOMAIN s = 1..Len(s)
      /\ \A j \in 1..Len(s) : s[j] \in S
  BY <1>1
<1>4. Range(s) = {s[j] : j \in 1..Len(s)}
  BY <1>3 DEF Range
<1>5. \A j \in 1..Len(s) : /\ s[j].name \in Seq(STRING)
                           /\ s[j].inode # 0 => s[j].inode \in DOMAIN t
  BY <1>2, <1>3
<1> QED  BY <1>3, <1>4, <1>5 DEF s

LEMMA PrefixOfItself ==
  ASSUME NEW s \in Seq(STRING)
  PROVE  IsPrefix(s, s)
<1>1. Len(s) <= Len(s)
  OBVIOUS
<1> QED  BY <1>1 DEF IsPrefix

-----------------------------------------------------------------------------
\* Opening and listing.

Inodes == DOMAIN tree \cup {Stray}

DirTypes ==
    /\ superblock \in Superblocks /\ tree \in Trees
    /\ path \in Seq(Seq(STRING))
    /\ component \in 1..Len(path) + 1 /\ entry \in Nat \ {0}
    /\ place \in {"idle", "open", "endless", "failed", "list", "listed"}
    /\ place \in {"open", "endless", "failed"} => opened = NULL
    /\ place = "open" => node \in Inodes
    /\ opened # NULL => opened \in Inodes /\ node = opened
    /\ place \in {"list", "listed"} => opened # NULL
    /\ room \in Nat

\* The entries the search has passed in a directory are no match, and none is deleted.
Passed ==
    place = "open" /\ component <= Len(path) /\ node \in DOMAIN tree =>
        \A k \in 1..Len(tree[node].entries) :
            k < entry => /\ tree[node].entries[k].inode # 0
                         /\ ~Matches(tree[node].entries[k].name, path[component])

\* A component's name is not there, and behind the entries the buffer goes on.
OutAt(t, p, m) ==
    LET k == Reached(t, p)[m - 1]
    IN  k # NULL /\ Named(t, k, p[m]) = NULL /\ t[k].tail > 0

\* For one of the components before, something was found behind the entries.
Astray == \E m \in 1..Len(path) : m < component /\ OutAt(tree, path, m)

\* The search is where the components before lead, unless it went astray.
OnWay ==
    NoPrefixes(tree, path) /\ place = "open" =>
        \/ node \in DOMAIN tree /\ node = Reached(tree, path)[component - 1]
        \/ Astray

\* What has been listed are the entries before the next one, as far as there are any.
InOrder ==
    /\ IsSequence(infos)
    /\ place = "list" /\ opened \in DOMAIN tree =>
          LET es == tree[opened].entries
          IN  /\ entry <= Len(es) + 1 => Len(infos) = entry - 1
              /\ entry > Len(es) + 1 => Len(infos) >= Len(es)

DirInv == DirTypes /\ Passed /\ OnWay /\ OpensWhatIsNamed /\ InOrder /\ ListsEntries

LEMMA TreesAre ==
  ASSUME DirTypes
  PROVE  /\ IsSuperblock(superblock) /\ IsTree(tree)
         /\ DOMAIN tree \subseteq Nat \ {0} /\ 2 \in DOMAIN tree
         /\ NULL \notin DOMAIN tree
<1>1. IsSuperblock(superblock) /\ IsTree(tree) /\ NULL \notin Nat
  BY Ext2DirAssumption DEF DirTypes
<1>2. DOMAIN tree \subseteq Nat \ {0} /\ 2 \in DOMAIN tree
  BY <1>1 DEF IsTree, EXT2_ROOT_INODE
<1> QED  BY <1>1, <1>2

LEMMA GetsInode ==
  ASSUME DirTypes, NEW k \in DOMAIN tree
  PROVE  ext2_get_inode(k) = k
<1>1. IsSuperblock(superblock) /\ IsTree(tree)
  BY TreesAre
<1> QED  BY <1>1, InodeIsFound

\* What is got is an inode of the tree or none at all.
LEMMA GetsSome ==
  ASSUME NEW k
  PROVE  ext2_get_inode(k) \in Inodes
<1>1. \A x : InodeAt(x) \in Inodes
  BY DEF InodeAt, Inodes
<1> QED  BY <1>1 DEF ext2_get_inode

\* Where the search is, it is looking in the directory that the path's part leads to.
LEMMA SearchedIs ==
  ASSUME DirTypes, OnWay, NoPrefixes(tree, path), ~Astray,
         place = "open", component <= Len(path)
  PROVE  /\ component \in 1..Len(path) /\ Len(path) \in Nat
         /\ node = Reached(tree, path)[component - 1]
         /\ node # NULL /\ node \in DOMAIN tree
         /\ Reached(tree, path)[component] = Named(tree, node, path[component])
<1>1. component \in 1..Len(path) /\ Len(path) \in Nat
  BY DEF DirTypes
<1>2. node \in DOMAIN tree /\ node = Reached(tree, path)[component - 1]
  BY DEF OnWay
<1>3. node # NULL
  BY <1>2, TreesAre
<1>4. Reached(tree, path)[component] =
        IF Reached(tree, path)[component - 1] = NULL THEN NULL
        ELSE Named(tree, Reached(tree, path)[component - 1], path[component])
  BY <1>1, ReachedIs
<1> QED  BY <1>1, <1>2, <1>3, <1>4

\* A path on which the search may go astray does not lead anywhere.
LEMMA OutIsNowhere ==
  ASSUME DirTypes, NEW m \in 1..Len(path), OutAt(tree, path, m)
  PROVE  LeadsIntoJunk(tree, path) /\ Lookup(tree, path) = NULL
<1>1. Len(path) \in Nat /\ m \in 0..Len(path)
  BY DEF DirTypes
<1>2. /\ Reached(tree, path)[m - 1] # NULL
      /\ Named(tree, Reached(tree, path)[m - 1], path[m]) = NULL
      /\ tree[Reached(tree, path)[m - 1]].tail > 0
  BY DEF OutAt
<1>3. LeadsIntoJunk(tree, path)
  BY <1>2 DEF LeadsIntoJunk
<1>4. Reached(tree, path)[m] = NULL
  BY <1>1, <1>2, ReachedIs
<1> QED  BY <1>1, <1>3, <1>4, NowhereOn

LEMMA AstrayIsNowhere ==
  ASSUME DirTypes, Astray
  PROVE  LeadsIntoJunk(tree, path) /\ Lookup(tree, path) = NULL
<1>1. PICK m \in 1..Len(path) : OutAt(tree, path, m)
  BY DEF Astray
<1> QED  BY <1>1, OutIsNowhere

\* The only entry that can match is the one with the name.
LEMMA MatchIsNamed ==
  ASSUME DirTypes, OnWay, NoPrefixes(tree, path), ~Astray,
         place = "open", component <= Len(path), tree[node].type = "dir",
         NEW e \in Range(tree[node].entries), e.inode # 0,
         Matches(e.name, path[component])
  PROVE  Reached(tree, path)[component] = e.inode
<1>1. /\ component \in 1..Len(path) /\ node \in DOMAIN tree /\ node # NULL
      /\ node = Reached(tree, path)[component - 1]
      /\ Reached(tree, path)[component] = Named(tree, node, path[component])
  BY SearchedIs
<1>2. e.name = path[component]
  BY <1>1 DEF NoPrefixes, Matches
<1>3. Named(tree, node, e.name) = e.inode
  BY <1>1, TreesAre, NamedIs
<1> QED  BY <1>1, <1>2, <1>3

\* A search that has passed all entries, or has no directory before it, has not passed
\* the name.
LEMMA AllPassed ==
  ASSUME DirTypes, Passed, OnWay, NoPrefixes(tree, path), ~Astray,
         place = "open", component <= Len(path),
         tree[node].type # "dir" \/ entry > Len(tree[node].entries)
  PROVE  Named(tree, node, path[component]) = NULL
<1>1. /\ component \in 1..Len(path) /\ node \in DOMAIN tree /\ Len(path) \in Nat
  BY SearchedIs
<1> DEFINE es == tree[node].entries
<1>2. /\ Len(es) \in Nat
      /\ Range(es) = {es[j] : j \in 1..Len(es)}
  BY <1>1, TreesAre, EntriesAre
<1>3. path[component] \in Seq(STRING) /\ entry \in Nat
  BY <1>1 DEF DirTypes
<1>4. tree[node].type = "dir" => \A e \in Range(es) : e.inode # 0 => e.name # path[component]
  <2> SUFFICES ASSUME tree[node].type = "dir" PROVE \A j \in 1..Len(es) : es[j].name # path[component]
    BY <1>2
  <2>1. /\ \A k \in 1..Len(es) : k < entry => ~Matches(es[k].name, path[component])
        /\ entry > Len(es)
    BY <1>1 DEF Passed
  <2>2. Matches(path[component], path[component])
    BY <1>3, PrefixOfItself DEF Matches
  <2> HIDE DEF es
  <2>3. \A k \in 1..Len(es) : ~Matches(es[k].name, path[component])
    BY <1>2, <1>3, <2>1
  <2> QED  BY <2>2, <2>3
<1> QED  BY <1>4, NamedNot

\* What stands where the loop is: the directory's entry, or what malloc's memory held.
LEMMA DirentIs ==
  ASSUME DirTypes, node \in DOMAIN tree, NEW e \in Dirents
  PROVE  /\ entry \in Nat \ {0} /\ Len(tree[node].entries) \in Nat
         /\ \/ /\ entry <= Len(tree[node].entries)
               /\ e = tree[node].entries[entry] /\ e \in Range(tree[node].entries)
               /\ Size(e) = 1
               /\ e.inode # 0 => e.inode \in DOMAIN tree
            \/ /\ entry > Len(tree[node].entries) /\ tree[node].tail > 0
<1>1. /\ Len(tree[node].entries) \in Nat /\ entry \in Nat \ {0}
      /\ tree[node].tail \in Nat
      /\ Range(tree[node].entries) = {tree[node].entries[j] : j \in 1..Len(tree[node].entries)}
      /\ \A j \in 1..Len(tree[node].entries) :
            tree[node].entries[j].inode # 0 => tree[node].entries[j].inode \in DOMAIN tree
  <2>1. IsTree(tree)
    BY TreesAre
  <2>2. tree[node].tail \in Nat
    BY <2>1 DEF IsTree
  <2>3. entry \in Nat \ {0}
    BY DEF DirTypes
  <2>4. /\ Len(tree[node].entries) \in Nat
        /\ Range(tree[node].entries)
             = {tree[node].entries[j] : j \in 1..Len(tree[node].entries)}
        /\ \A j \in 1..Len(tree[node].entries) :
              /\ tree[node].entries[j].name \in Seq(STRING)
              /\ tree[node].entries[j].inode # 0 => tree[node].entries[j].inode \in DOMAIN tree
    BY <2>1, EntriesAre
  <2> QED  BY <2>2, <2>3, <2>4
<1> DEFINE es == tree[node].entries
           tail == tree[node].tail
<1>2. /\ e \in IF entry <= Len(es) THEN {es[entry]}
               ELSE IF entry <= Len(es) + tail THEN Junk ELSE {}
      /\ entry <= Len(es) => Size(e) = 1
  BY DEF Dirents, Entries, Behind, Size
<1> HIDE DEF es, tail
<1>3. CASE entry <= Len(es)
  <2>1. entry \in 1..Len(es) /\ e = es[entry]
    BY <1>1, <1>2, <1>3 DEF es
  <2> QED  BY <1>1, <1>2, <1>3, <2>1 DEF es
<1>4. CASE entry > Len(es)
  <2>1. entry <= Len(es) + tail
    BY <1>1, <1>2, <1>4 DEF es, tail
  <2>2. tail > 0
    BY <1>1, <1>4, <2>1 DEF es, tail
  <2> QED  BY <1>1, <1>4, <2>2 DEF es, tail
<1> QED  BY <1>1, <1>3, <1>4 DEF es

\* An entry's size.
LEMMA SizeIs ==
  ASSUME NEW e \in Dirents
  PROVE  Size(e) \in Nat
<1>1. entry <= Len(Entries) => Size(e) = 1
  BY DEF Size
<1>2. ~(entry <= Len(Entries)) => e \in Junk /\ Size(e) = e.size
  BY DEF Dirents, Size
<1> QED  BY <1>1, <1>2, Ext2DirAssumption

\* Where a loop ends by itself, all entries are passed or one is deleted.
LEMMA EndIs ==
  ASSUME DirTypes, node \in DOMAIN tree, Ends
  PROVE  \/ entry > Len(tree[node].entries)
         \/ \E e \in Range(tree[node].entries) : e.inode = 0
<1>1. CASE Dirents = {}
  <2>1. Len(tree[node].entries) \in Nat /\ entry \in Nat
    BY TreesAre, EntriesAre DEF DirTypes
  <2>2. ~(entry <= Len(tree[node].entries))
    BY <1>1 DEF Dirents, Entries
  <2> QED  BY <2>1, <2>2
<1>2. CASE \E e \in Dirents : e.inode = 0
  <2>1. PICK e \in Dirents : e.inode = 0
    BY <1>2
  <2> QED  BY <2>1, DirentIs
<1> QED  BY <1>1, <1>2 DEF Ends

\* A search that finds nothing in a directory without deleted entries is right.
LEMMA NotThere ==
  ASSUME DirTypes, Passed, OnWay, NoPrefixes(tree, path),
         place = "open", component <= Len(path), NothingDeleted(tree, path),
         Types(node) # {"dir"} \/ Ends
  PROVE  Lookup(tree, path) = NULL
<1>1. CASE Astray
  BY <1>1, AstrayIsNowhere
<1>2. CASE ~Astray
  <2>1. /\ component \in 1..Len(path) /\ node \in DOMAIN tree /\ node # NULL
        /\ node = Reached(tree, path)[component - 1] /\ Len(path) \in Nat
        /\ Reached(tree, path)[component] = Named(tree, node, path[component])
    BY <1>2, SearchedIs
  <2>2. Types(node) = {tree[node].type}
    BY <2>1 DEF Types
  <2>3. \A e \in Range(tree[node].entries) : e.inode # 0
    BY <2>1 DEF NothingDeleted
  <2>4. tree[node].type # "dir" \/ entry > Len(tree[node].entries)
    BY <2>1, <2>2, <2>3, EndIs
  <2>5. Named(tree, node, path[component]) = NULL
    BY <1>2, <2>4, AllPassed
  <2>6. component \in 0..Len(path)
    BY <2>1
  <2> QED  BY <2>1, <2>5, <2>6, NowhereOn
<1> QED  BY <1>1, <1>2

LEMMA DirBegins ==
  ASSUME DirInit
  PROVE  DirInv
<1>1. superblock \in Superblocks /\ tree \in Trees /\ place = "idle" /\ opened = NULL
      /\ path = <<>> /\ component = 1 /\ entry = 1 /\ room = 0 /\ infos = <<>>
  BY DEF DirInit
<1>2. path \in Seq(Seq(STRING)) /\ Len(path) = 0
  <2>1. <<>> \in Seq(Seq(STRING)) /\ Len(<<>>) = 0
    OBVIOUS
  <2> QED  BY <1>1, <2>1
<1>3. DirTypes
  BY <1>1, <1>2 DEF DirTypes
<1>4. InOrder
  BY <1>1, EmptyIsOne DEF InOrder
<1> QED  BY <1>1, <1>3, <1>4 DEF DirInv, Passed, OnWay, OpensWhatIsNamed, ListsEntries

LEMMA OpenKeeps ==
  ASSUME DirInv, NEW p \in Paths, Open(p)
  PROVE  DirInv'
<1> USE DEF DirInv
<1>1. /\ superblock' = superblock /\ tree' = tree /\ room' = room /\ infos' = infos
      /\ opened' = opened /\ opened = NULL
      /\ path' = p /\ component' = 1 /\ entry' = 1 /\ place' = "open"
      /\ node' = ext2_get_inode(2)
  BY DEF Open, EXT2_ROOT_INODE
<1>2. 2 \in DOMAIN tree /\ IsTree(tree)
  BY TreesAre
<1>3. node' = 2
  BY <1>1, <1>2, GetsInode
<1>4. p \in Seq(Seq(STRING)) /\ Len(p) \in Nat
  BY Ext2DirAssumption
<1>5. DirTypes'
  BY <1>1, <1>2, <1>3, <1>4 DEF DirTypes, Inodes
<1>6. Passed'
  <2>1. Len(tree[node'].entries) \in Nat
    BY <1>2, <1>3, EntriesAre
  <2> QED  BY <1>1, <2>1 DEF Passed
<1>7. OnWay'
  <2>1. Reached(tree, p)[0] = 2
    BY <1>4, ReachedIs
  <2> QED  BY <1>1, <1>2, <1>3, <2>1 DEF OnWay
<1>8. OpensWhatIsNamed' /\ InOrder' /\ ListsEntries'
  BY <1>1 DEF OpensWhatIsNamed, InOrder, ListsEntries
<1> QED  BY <1>5, <1>6, <1>7, <1>8

\* A search that fails leaves all but the place as it is.
LEMMA FailsKeeps ==
  ASSUME DirInv, Fails, place = "open", component <= Len(path),
         NoPrefixes(tree, path) /\ NothingDeleted(tree, path) =>
             Lookup(tree, path) = NULL
  PROVE  DirInv'
<1> USE DEF DirInv
<1>1. /\ superblock' = superblock /\ tree' = tree /\ room' = room /\ infos' = infos
      /\ opened' = opened /\ path' = path /\ component' = component /\ entry' = entry
      /\ place' = "failed"
  BY DEF Fails
<1>2. opened = NULL
  BY DEF DirTypes
<1>3. DirTypes'
  BY <1>1, <1>2 DEF DirTypes, Inodes
<1>4. Passed' /\ OnWay' /\ InOrder' /\ ListsEntries'
  BY <1>1 DEF Passed, OnWay, Astray, InOrder, ListsEntries
<1>5. OpensWhatIsNamed'
  BY <1>1, <1>2 DEF OpensWhatIsNamed
<1> QED  BY <1>3, <1>4, <1>5

LEMMA SearchFileKeeps ==
  ASSUME DirInv, SearchFile
  PROVE  DirInv'
<1>1. place = "open" /\ component <= Len(path) /\ Types(node) # {"dir"} /\ Fails
  BY DEF SearchFile, Searches
<1>2. NoPrefixes(tree, path) /\ NothingDeleted(tree, path) => Lookup(tree, path) = NULL
  BY <1>1, NotThere DEF DirInv
<1> QED  BY <1>1, <1>2, FailsKeeps

LEMMA SearchEndsKeeps ==
  ASSUME DirInv, SearchEnds
  PROVE  DirInv'
<1>1. place = "open" /\ component <= Len(path) /\ Fails /\ Ends
  BY DEF SearchEnds, Searching, Searches
<1>2. NoPrefixes(tree, path) /\ NothingDeleted(tree, path) => Lookup(tree, path) = NULL
  BY <1>1, NotThere DEF DirInv
<1> QED  BY <1>1, <1>2, FailsKeeps

\* Behind the entries the search is out.
LEMMA GoesOut ==
  ASSUME DirInv, NoPrefixes(tree, path), ~Astray, place = "open", component <= Len(path),
         entry > Len(tree[node].entries), tree[node].tail > 0
  PROVE  component \in 1..Len(path) /\ OutAt(tree, path, component)
<1>1. /\ component \in 1..Len(path) /\ node # NULL
      /\ node = Reached(tree, path)[component - 1]
  BY SearchedIs DEF DirInv
<1>2. Named(tree, node, path[component]) = NULL
  BY AllPassed DEF DirInv
<1> QED  BY <1>1, <1>2 DEF OutAt

LEMMA SearchNextKeeps ==
  ASSUME DirInv, SearchNext
  PROVE  DirInv'
<1> USE DEF DirInv
<1>1. PICK e \in Dirents :
         /\ e.inode # 0 /\ ~Matches(e.name, path[component])
         /\ entry' = entry + Size(e)
         /\ place' = IF Size(e) = 0 THEN "endless" ELSE "open"
  BY DEF SearchNext
<1>2. /\ superblock' = superblock /\ tree' = tree /\ room' = room /\ infos' = infos
      /\ opened' = opened /\ path' = path /\ component' = component
      /\ node' = node /\ place = "open" /\ component <= Len(path)
  BY DEF SearchNext, Searching, Searches
<1>3. entry \in Nat \ {0} /\ Size(e) \in Nat /\ entry' \in Nat \ {0}
  BY <1>1, SizeIs DEF DirTypes
<1>4. DirTypes'
  BY <1>1, <1>2, <1>3 DEF DirTypes, Inodes
<1>5. Passed'
  <2> SUFFICES ASSUME node \in DOMAIN tree, NEW k \in 1..Len(tree[node].entries), k < entry'
               PROVE  /\ tree[node].entries[k].inode # 0
                      /\ ~Matches(tree[node].entries[k].name, path[component])
    BY <1>2 DEF Passed
  <2>1. Len(tree[node].entries) \in Nat
    BY TreesAre, EntriesAre
  <2>2. CASE k < entry
    BY <1>2, <2>2 DEF Passed
  <2>3. CASE ~(k < entry)
    <3>1. entry <= Len(tree[node].entries)
      BY <1>3, <2>1, <2>3
    <3>2. e = tree[node].entries[entry] /\ Size(e) = 1
      BY <1>3, <2>1, <3>1, DirentIs
    <3>3. k = entry
      BY <1>1, <1>3, <2>3, <3>2
    <3> QED  BY <1>1, <3>2, <3>3
  <2> QED  BY <2>2, <2>3
<1>6. OnWay'
  BY <1>2 DEF OnWay, Astray
<1>7. OpensWhatIsNamed'
  <2>1. opened = NULL
    BY <1>2 DEF DirTypes
  <2>2. ASSUME Size(e) = 0, NoPrefixes(tree, path) PROVE LeadsIntoJunk(tree, path)
    <3>1. CASE Astray
      BY <3>1, AstrayIsNowhere
    <3>2. CASE ~Astray
      <4>1. node \in DOMAIN tree
        BY <1>2, <2>2, <3>2, SearchedIs
      <4>2. entry > Len(tree[node].entries) /\ tree[node].tail > 0
        BY <2>2, <4>1, DirentIs
      <4> QED  BY <1>2, <2>2, <3>2, <4>2, GoesOut, OutIsNowhere
    <3> QED  BY <3>1, <3>2
  <2> QED  BY <1>1, <1>2, <2>1, <2>2 DEF OpensWhatIsNamed
<1>8. InOrder' /\ ListsEntries'
  BY <1>1, <1>2 DEF InOrder, ListsEntries
<1> QED  BY <1>4, <1>5, <1>6, <1>7, <1>8

LEMMA SearchFoundKeeps ==
  ASSUME DirInv, SearchFound
  PROVE  DirInv'
<1> USE DEF DirInv
<1>1. PICK e \in Dirents :
         /\ e.inode # 0 /\ Matches(e.name, path[component])
         /\ node' = ext2_get_inode(e.inode)
  BY DEF SearchFound
<1>2. /\ superblock' = superblock /\ tree' = tree /\ room' = room /\ infos' = infos
      /\ opened' = opened /\ path' = path /\ component' = component + 1
      /\ place' = place /\ entry' = 1
      /\ place = "open" /\ component <= Len(path) /\ "dir" \in Types(node)
  BY DEF SearchFound, Searching, Searches
<1>3. /\ opened = NULL /\ component \in 1..Len(path) /\ Len(path) \in Nat
      /\ component' - 1 = component /\ component' \in 1..Len(path) + 1
  BY <1>2 DEF DirTypes
<1>4. node' \in Inodes
  BY <1>1, GetsSome
<1>5. DirTypes'
  BY <1>2, <1>3, <1>4 DEF DirTypes, Inodes
<1>6. Passed'
  <2>1. node' \in DOMAIN tree => Len(tree[node'].entries) \in Nat
    BY TreesAre, EntriesAre
  <2> QED  BY <1>2, <2>1 DEF Passed
<1>7. OnWay'
  <2> SUFFICES ASSUME NoPrefixes(tree, path)
               PROVE  \/ node' \in DOMAIN tree /\ node' = Reached(tree, path)[component]
                      \/ \E m \in 1..Len(path) : m < component + 1 /\ OutAt(tree, path, m)
    BY <1>2, <1>3 DEF OnWay, Astray
  <2>1. CASE Astray
    BY <1>3, <2>1 DEF Astray
  <2>2. CASE ~Astray
    <3>1. node \in DOMAIN tree
      BY <1>2, <2>2, SearchedIs
    <3>2. Types(node) = {tree[node].type}
      BY <3>1 DEF Types
    <3>3. tree[node].type = "dir"
      BY <1>2, <3>2
    <3>4. CASE entry > Len(tree[node].entries) /\ tree[node].tail > 0
      BY <1>2, <1>3, <2>2, <3>4, GoesOut
    <3>5. CASE e \in Range(tree[node].entries) /\ e.inode \in DOMAIN tree
      <4>1. node' = e.inode
        BY <1>1, <3>5, GetsInode
      <4> QED  BY <1>1, <1>2, <2>2, <3>3, <3>5, <4>1, MatchIsNamed
    <3> QED  BY <1>1, <3>1, <3>4, <3>5, DirentIs
  <2> QED  BY <2>1, <2>2
<1>8. OpensWhatIsNamed' /\ InOrder' /\ ListsEntries'
  BY <1>2, <1>3 DEF OpensWhatIsNamed, InOrder, ListsEntries
<1> QED  BY <1>5, <1>6, <1>7, <1>8

LEMMA OpenInodeKeeps ==
  ASSUME DirInv, OpenInode
  PROVE  DirInv'
<1> USE DEF DirInv
<1>1. /\ superblock' = superblock /\ tree' = tree /\ room' = room /\ infos' = infos
      /\ opened' = node /\ path' = path /\ component' = component
      /\ place' = "idle" /\ node' = node /\ entry' = 1
      /\ place = "open" /\ component > Len(path)
  BY DEF OpenInode
<1>2. /\ node \in Inodes /\ component \in 1..Len(path) + 1 /\ Len(path) \in Nat
  BY <1>1 DEF DirTypes
<1>3. component - 1 = Len(path)
  BY <1>1, <1>2
<1>4. DirTypes'
  BY <1>1, <1>2 DEF DirTypes, Inodes
<1>5. OpensWhatIsNamed'
  <2>1. NoPrefixes(tree, path) => node = Lookup(tree, path) \/ LeadsIntoJunk(tree, path)
    BY <1>1, <1>3, AstrayIsNowhere DEF OnWay, Lookup
  <2> QED  BY <1>1, <2>1 DEF OpensWhatIsNamed
<1>6. Passed' /\ OnWay' /\ InOrder' /\ ListsEntries'
  BY <1>1 DEF Passed, OnWay, Astray, InOrder, ListsEntries
<1> QED  BY <1>4, <1>5, <1>6

LEMMA FailedKeeps ==
  ASSUME DirInv, Failed
  PROVE  DirInv'
<1> USE DEF DirInv
<1>1. /\ superblock' = superblock /\ tree' = tree /\ room' = room /\ infos' = infos
      /\ opened' = opened /\ path' = <<>> /\ component' = 1
      /\ place' = "idle" /\ node' = node /\ entry' = 1 /\ place = "failed"
  BY DEF Failed
<1>2. opened = NULL
  BY <1>1 DEF DirTypes
<1>3. <<>> \in Seq(Seq(STRING)) /\ Len(<<>>) = 0
  OBVIOUS
<1>4. path' \in Seq(Seq(STRING)) /\ Len(path') = 0
  BY <1>1, <1>3
<1>5. DirTypes'
  BY <1>1, <1>2, <1>4 DEF DirTypes, Inodes
<1>6. Passed' /\ OnWay' /\ OpensWhatIsNamed' /\ InOrder' /\ ListsEntries'
  BY <1>1, <1>2 DEF Passed, OnWay, OpensWhatIsNamed, InOrder, ListsEntries
<1> QED  BY <1>5, <1>6

LEMMA ReadDirKeeps ==
  ASSUME DirInv, NEW r \in Rooms, ReadDir(r)
  PROVE  DirInv'
<1> USE DEF DirInv
<1>1. /\ superblock' = superblock /\ tree' = tree /\ room' = r /\ infos' = <<>>
      /\ opened' = opened /\ path' = path /\ component' = component
      /\ place' = "list" /\ node' = node /\ entry' = 1
      /\ place = "idle" /\ opened # NULL
  BY DEF ReadDir
<1>2. r \in Nat
  BY Ext2DirAssumption
<1>3. DirTypes'
  BY <1>1, <1>2 DEF DirTypes, Inodes
<1>4. opened \in DOMAIN tree => Len(tree[opened].entries) \in Nat
  BY TreesAre, EntriesAre
<1>5. IsSequence(infos') /\ Len(infos') = 0 /\ DOMAIN infos' = {}
  <2>1. DOMAIN <<>> = {}
    OBVIOUS
  <2>2. IsSequence(<<>>) /\ Len(<<>>) = 0
    BY EmptyIsOne
  <2> QED  BY <1>1, <2>1, <2>2, Zenon
<1>6. InOrder'
  <2>1. opened \in DOMAIN tree =>
            entry' <= Len(tree[opened].entries) + 1 /\ entry' - 1 = 0
    BY <1>1, <1>4
  <2> QED  BY <1>1, <1>4, <1>5, <2>1 DEF InOrder
<1>7. ListsEntries'
  BY <1>1, <1>2, <1>5 DEF ListsEntries
<1>8. Passed' /\ OnWay' /\ OpensWhatIsNamed'
  BY <1>1 DEF Passed, OnWay, OpensWhatIsNamed
<1> QED  BY <1>3, <1>6, <1>7, <1>8

LEMMA ListNextKeeps ==
  ASSUME DirInv, ListNext
  PROVE  DirInv'
<1> USE DEF DirInv
<1>1. PICK e \in Dirents :
         /\ e.inode # 0
         /\ \E type \in Types(ext2_get_inode(e.inode)) :
               infos' = Append(infos, [name |-> e.name, mode |-> type])
         /\ entry' = entry + Size(e)
         /\ place' = IF Size(e) = 0 THEN "listed" ELSE "list"
  BY DEF ListNext
<1>2. PICK type \in Types(ext2_get_inode(e.inode)) :
         infos' = Append(infos, [name |-> e.name, mode |-> type])
  BY <1>1
<1>3. /\ superblock' = superblock /\ tree' = tree /\ room' = room
      /\ opened' = opened /\ path' = path /\ component' = component
      /\ node' = node /\ place = "list" /\ Len(infos) < room
  BY DEF ListNext, Listing
<1>4. /\ entry \in Nat \ {0} /\ opened # NULL /\ opened \in Inodes /\ node = opened
      /\ room \in Nat /\ Size(e) \in Nat /\ entry' \in Nat \ {0}
  BY <1>1, <1>3, SizeIs DEF DirTypes
<1>5. DirTypes'
  BY <1>1, <1>3, <1>4 DEF DirTypes, Inodes
<1> DEFINE new == [name |-> e.name, mode |-> type]
<1>6. /\ IsSequence(infos') /\ Len(infos) \in Nat /\ Len(infos') = Len(infos) + 1
      /\ DOMAIN infos = 1..Len(infos) /\ DOMAIN infos' = 1..Len(infos) + 1
      /\ \A k \in 1..Len(infos) : infos'[k] = infos[k]
      /\ infos'[Len(infos) + 1] = new
  <2>1. IsSequence(infos)
    BY DEF InOrder
  <2> HIDE DEF new
  <2>2. infos' = Append(infos, new)
    BY <1>2 DEF new
  <2>3. /\ IsSequence(Append(infos, new)) /\ Len(infos) \in Nat
        /\ Len(Append(infos, new)) = Len(infos) + 1
        /\ \A k \in 1..Len(infos) : Append(infos, new)[k] = infos[k]
        /\ Append(infos, new)[Len(infos) + 1] = new
    BY <2>1, Appending
  <2>4. IsSequence(infos') /\ Len(infos') = Len(infos) + 1
    BY <2>2, <2>3
  <2>5. DOMAIN infos = 1..Len(infos) /\ DOMAIN infos' = 1..Len(infos')
    BY <2>1, <2>4 DEF IsSequence
  <2> QED  BY <2>2, <2>3, <2>4, <2>5
<1> HIDE DEF new
<1>7. Len(infos') <= room
  BY <1>3, <1>4, <1>6
<1>8. Passed' /\ OnWay' /\ OpensWhatIsNamed'
  BY <1>1, <1>3 DEF Passed, OnWay, OpensWhatIsNamed
<1>9. CASE opened \notin DOMAIN tree
  BY <1>3, <1>5, <1>6, <1>7, <1>8, <1>9 DEF InOrder, ListsEntries
<1>10. CASE opened \in DOMAIN tree
  <2> DEFINE es == tree[opened].entries
             info(k) == [name |-> es[k].name, mode |-> tree[es[k].inode].type]
             tail == tree[opened].tail
  <2>1. /\ Len(es) \in Nat
        /\ \/ /\ entry <= Len(es) /\ e = es[entry] /\ Size(e) = 1
              /\ e.inode \in DOMAIN tree
           \/ entry > Len(es) /\ tail > 0
    BY <1>1, <1>4, <1>10, DirentIs
  <2>2. /\ entry <= Len(es) + 1 => Len(infos) = entry - 1
        /\ entry > Len(es) + 1 => Len(infos) >= Len(es)
    BY <1>3, <1>10 DEF InOrder
  <2>3. \A k \in 1..Len(infos) : IF k <= Len(es) THEN infos[k] = info(k) ELSE tail > 0
    BY <1>3, <1>6, <1>10 DEF ListsEntries
  <2>4. entry <= Len(es) => new = info(entry)
    <3> SUFFICES ASSUME entry <= Len(es) PROVE new = info(entry)
      OBVIOUS
    <3>1. e = es[entry] /\ e.inode \in DOMAIN tree
      <4> HIDE DEF es
      <4> QED  BY <1>4, <2>1
    <3>2. ext2_get_inode(e.inode) = e.inode
      BY <3>1, GetsInode
    <3>3. type = tree[e.inode].type
      BY <1>2, <3>1, <3>2 DEF Types
    <3> QED  BY <3>1, <3>3 DEF new
  <2> HIDE DEF es, info, tail
  <2>5. \A k \in 1..Len(infos) + 1 : IF k <= Len(es) THEN infos'[k] = info(k) ELSE tail > 0
    <3> SUFFICES ASSUME NEW k \in 1..Len(infos) + 1
                 PROVE  IF k <= Len(es) THEN infos'[k] = info(k) ELSE tail > 0
      OBVIOUS
    <3>1. CASE k \in 1..Len(infos)
      BY <1>6, <2>3, <3>1
    <3>2. CASE k = Len(infos) + 1
      <4>1. CASE entry <= Len(es)
        <5>1. k = entry
          BY <1>4, <2>1, <2>2, <3>2, <4>1
        <5> QED  BY <1>6, <2>4, <3>2, <4>1, <5>1
      <4>2. CASE entry > Len(es)
        <5>1. Len(infos) >= Len(es) /\ tail > 0
          BY <1>4, <1>6, <2>1, <2>2, <4>2
        <5>2. ~(k <= Len(es))
          BY <1>6, <2>1, <3>2, <5>1
        <5> QED  BY <5>1, <5>2
      <4> QED  BY <1>4, <2>1, <4>1, <4>2
    <3> QED  BY <1>6, <3>1, <3>2
  <2>6. place' = "listed" => Len(infos') >= Len(es)
    <3> SUFFICES ASSUME place' = "listed" PROVE Len(infos') >= Len(es)
      OBVIOUS
    <3>1. Size(e) = 0
      BY <1>1
    <3>2. entry > Len(es)
      BY <2>1, <3>1
    <3> QED  BY <1>4, <1>6, <2>1, <2>2, <3>2
  <2>7. place' = "list" => /\ entry' <= Len(es) + 1 => Len(infos') = entry' - 1
                           /\ entry' > Len(es) + 1 => Len(infos') >= Len(es)
    <3> SUFFICES ASSUME place' = "list"
                 PROVE  /\ entry' <= Len(es) + 1 => Len(infos') = entry' - 1
                        /\ entry' > Len(es) + 1 => Len(infos') >= Len(es)
      OBVIOUS
    <3>1. Size(e) # 0 /\ entry' = entry + Size(e)
      BY <1>1
    <3>2. CASE entry <= Len(es)
      <4>1. entry' = entry + 1 /\ Len(infos') = entry
        BY <1>4, <1>6, <2>1, <2>2, <3>1, <3>2
      <4> QED  BY <1>4, <2>1, <3>2, <4>1
    <3>3. CASE entry > Len(es)
      <4>1. Len(infos') >= Len(es) + 1
        BY <1>4, <1>6, <2>1, <2>2, <3>3
      <4>2. entry' > Len(es) + 1
        BY <1>4, <2>1, <3>1, <3>3
      <4> QED  BY <1>4, <1>6, <2>1, <4>1, <4>2
    <3> QED  BY <1>4, <2>1, <3>2, <3>3
  <2>8. InOrder'
    BY <1>3, <1>6, <2>7 DEF InOrder, es
  <2>9. ListsEntries'
    <3>1. place' \in {"list", "listed"} => Len(infos') <= room'
      BY <1>3, <1>7
    <3>2. \A k \in DOMAIN infos' :
             IF k <= Len(es) THEN infos'[k] = info(k) ELSE tail > 0
      BY <1>6, <2>5
    <3> QED  BY <1>3, <2>6, <3>1, <3>2 DEF ListsEntries, es, info, tail
  <2> QED  BY <1>5, <1>8, <2>8, <2>9
<1> QED  BY <1>9, <1>10

LEMMA ListEndsKeeps ==
  ASSUME DirInv, ListEnds
  PROVE  DirInv'
<1> USE DEF DirInv
<1>1. /\ superblock' = superblock /\ tree' = tree /\ room' = room /\ infos' = infos
      /\ opened' = opened /\ path' = path /\ component' = component
      /\ place' = "listed" /\ node' = node /\ entry' = entry
      /\ place = "list" /\ (Len(infos) < room => Ends)
  BY DEF ListEnds, Listing
<1>2. DirTypes'
  BY <1>1 DEF DirTypes, Inodes
<1>3. Passed' /\ OnWay' /\ OpensWhatIsNamed' /\ InOrder'
  BY <1>1 DEF Passed, OnWay, OpensWhatIsNamed, InOrder
<1>4. Len(infos) <= room /\ room \in Nat /\ Len(infos) \in Nat
  <2>1. IsSequence(infos)
    BY DEF InOrder
  <2>2. Len(infos) \in Nat
    BY <2>1 DEF IsSequence
  <2> QED  BY <1>1, <2>2 DEF ListsEntries, DirTypes
<1>5. ASSUME opened \in DOMAIN tree
      PROVE  \/ Len(infos) >= Len(tree[opened].entries) \/ Len(infos) = room
             \/ \E e \in Range(tree[opened].entries) : e.inode = 0
  <2> DEFINE es == tree[opened].entries
  <2>1. node = opened /\ entry \in Nat
    BY <1>1 DEF DirTypes
  <2>2. Len(es) \in Nat
    BY <1>5, TreesAre, EntriesAre
  <2>3. Ends => entry > Len(es) \/ \E e \in Range(es) : e.inode = 0
    BY <1>5, <2>1, EndIs
  <2>4. /\ entry <= Len(es) + 1 => Len(infos) = entry - 1
        /\ entry > Len(es) + 1 => Len(infos) >= Len(es)
    BY <1>1, <1>5 DEF InOrder
  <2> HIDE DEF es
  <2>5. entry > Len(es) => Len(infos) >= Len(es)
    BY <1>4, <2>1, <2>2, <2>4
  <2>6. ~(Len(infos) < room) => Len(infos) = room
    BY <1>4
  <2> QED  BY <1>1, <2>3, <2>5, <2>6 DEF es
<1>6. ListsEntries'
  <2>1. opened \in DOMAIN tree =>
           \A k \in DOMAIN infos :
              IF k <= Len(tree[opened].entries)
              THEN infos[k] = [name |-> tree[opened].entries[k].name,
                               mode |-> tree[tree[opened].entries[k].inode].type]
              ELSE tree[opened].tail > 0
    BY <1>1 DEF ListsEntries
  <2> QED  BY <1>1, <1>4, <1>5, <2>1 DEF ListsEntries
<1> QED  BY <1>2, <1>3, <1>6

LEMMA ListedKeeps ==
  ASSUME DirInv, Listed
  PROVE  DirInv'
<1> USE DEF DirInv
<1>1. /\ superblock' = superblock /\ tree' = tree /\ room' = 0 /\ infos' = <<>>
      /\ opened' = opened /\ path' = path /\ component' = component
      /\ place' = "idle" /\ node' = node /\ entry' = 1
  BY DEF Listed
<1>2. IsSequence(infos')
  BY <1>1, EmptyIsOne, Zenon
<1>3. DirTypes'
  BY <1>1 DEF DirTypes, Inodes
<1>4. Passed' /\ OnWay' /\ InOrder' /\ ListsEntries'
  BY <1>1, <1>2 DEF Passed, OnWay, InOrder, ListsEntries
<1>5. OpensWhatIsNamed'
  BY <1>1 DEF OpensWhatIsNamed
<1> QED  BY <1>3, <1>4, <1>5

LEMMA CloseKeeps ==
  ASSUME DirInv, Close
  PROVE  DirInv'
<1> USE DEF DirInv
<1>1. /\ superblock' = superblock /\ tree' = tree /\ room' = room /\ infos' = infos
      /\ opened' = NULL /\ path' = <<>> /\ component' = 1
      /\ place' = "idle" /\ node' = NULL /\ entry' = entry
  BY DEF Close
<1>2. path' \in Seq(Seq(STRING)) /\ Len(path') = 0
  <2>1. <<>> \in Seq(Seq(STRING)) /\ Len(<<>>) = 0
    OBVIOUS
  <2> QED  BY <1>1, <2>1
<1>3. DirTypes'
  BY <1>1, <1>2 DEF DirTypes, Inodes
<1>4. Passed' /\ OnWay' /\ OpensWhatIsNamed' /\ InOrder' /\ ListsEntries'
  BY <1>1 DEF Passed, OnWay, OpensWhatIsNamed, InOrder, ListsEntries
<1> QED  BY <1>3, <1>4

LEMMA DirKept == DirSpec => []DirInv
<1>1. ASSUME DirInit PROVE DirInv
  BY <1>1, DirBegins
<1>2. ASSUME DirInv, [DirNext]_dirVars PROVE DirInv'
  <2>1. ASSUME NEW p \in Paths, Open(p) PROVE DirInv'
    BY <1>2, <2>1, OpenKeeps
  <2>2. ASSUME SearchFile PROVE DirInv'
    BY <1>2, <2>2, SearchFileKeeps
  <2>3. ASSUME SearchNext PROVE DirInv'
    BY <1>2, <2>3, SearchNextKeeps
  <2>4. ASSUME SearchFound PROVE DirInv'
    BY <1>2, <2>4, SearchFoundKeeps
  <2>5. ASSUME SearchEnds PROVE DirInv'
    BY <1>2, <2>5, SearchEndsKeeps
  <2>6. ASSUME OpenInode PROVE DirInv'
    BY <1>2, <2>6, OpenInodeKeeps
  <2>7. ASSUME Failed PROVE DirInv'
    BY <1>2, <2>7, FailedKeeps
  <2>8. ASSUME NEW r \in Rooms, ReadDir(r) PROVE DirInv'
    BY <1>2, <2>8, ReadDirKeeps
  <2>9. ASSUME ListNext PROVE DirInv'
    BY <1>2, <2>9, ListNextKeeps
  <2>10. ASSUME ListEnds PROVE DirInv'
    BY <1>2, <2>10, ListEndsKeeps
  <2>11. ASSUME Listed PROVE DirInv'
    BY <1>2, <2>11, ListedKeeps
  <2>12. ASSUME Close PROVE DirInv'
    BY <1>2, <2>12, CloseKeeps
  <2>13. ASSUME UNCHANGED dirVars PROVE DirInv'
    <3>1. /\ superblock' = superblock /\ tree' = tree /\ place' = place /\ path' = path
          /\ component' = component /\ node' = node /\ entry' = entry /\ room' = room
          /\ infos' = infos /\ opened' = opened
      BY <2>13 DEF dirVars
    <3>2. DirTypes' /\ Passed' /\ OnWay' /\ InOrder'
      BY <1>2, <3>1 DEF DirInv, DirTypes, Inodes, Passed, OnWay, Astray, InOrder
    <3>3. OpensWhatIsNamed' /\ ListsEntries'
      BY <1>2, <3>1 DEF DirInv, OpensWhatIsNamed, ListsEntries
    <3> QED  BY <3>2, <3>3 DEF DirInv
  <2>14. ASSUME Endless PROVE DirInv'
    BY <2>13, <2>14 DEF Endless
  <2>15. DirNext \/ UNCHANGED dirVars
    BY <1>2
  <2> QED  BY <2>1, <2>2, <2>3, <2>4, <2>5, <2>6, <2>7, <2>8, <2>9, <2>10, <2>11, <2>12,
              <2>13, <2>14, <2>15 DEF DirNext
<1> QED  BY <1>1, <1>2, PTL DEF DirSpec

\* ext2_open: whatever the tree, the sizes of its groups and what malloc's memory held,
\* where no name on the way begins another none that is there is reported missing unless
\* a deleted entry stands before it, or looked for without end; and the file opened is
\* the one its path names, unless a name on the way is not there and the buffer of the
\* directory goes on behind its entries.
THEOREM PathsOpen == DirSpec => []OpensWhatIsNamed
<1>1. DirInv => OpensWhatIsNamed
  BY DEF DirInv
<1> QED  BY <1>1, DirKept, PTL

\* ext2_read_dir: a listing is the directory's entries from the first on, each with its
\* own name and type, all of them if there is room and none is deleted, and never more
\* than the caller has room for; more than the entries only where the buffer goes on
\* behind them.
THEOREM ListingsAreTrue == DirSpec => []ListsEntries
<1>1. DirInv => ListsEntries
  BY DEF DirInv
<1> QED  BY <1>1, DirKept, PTL

=============================================================================
