------------------------------ MODULE Fat_proofs ------------------------------
(***************************************************************************)
(* What the FAT32 driver reads and writes of a file is that file, on every   *)
(* intact volume, whatever the disk fails to do; the file that it opens is    *)
(* the one that the path names, and what it lists of a directory is what is  *)
(* in it, on every volume whose names it can put together; its timestamps    *)
(* are the calendar's, except in leap years.                                *)
(*                                                                         *)
(* IInv is the invariant of every call.  The second half walks through       *)
(* directories: WalkAt says where in the chain of one the driver is and what *)
(* it has gathered of a long name; OnTheWay, that no entry before that place  *)
(* has the name searched for; OnTheList, that all of those have been told of. *)
(***************************************************************************)
EXTENDS Fat, FiniteSetTheorems, WellFoundedInduction, TLAPS

Waiting == {"mounting", "chain", "entries", "copy", "patch", "stored"}

Control ==
    /\ made \in Volumes /\ e \in Nat
    /\ failures \subseteq {"fat", "data"}
    /\ pc \in Waiting \cup {"unmounted", "idle", "open", "list", "read", "write", "next", "corrupt"}
    /\ op.kind \in {"none", "open", "list", "read", "write"} /\ op.size \in Nat
    /\ pc \in {"open", "list", "read", "write"} => op.kind = pc
    /\ pc = "copy" => op.kind = "read"
    /\ op.kind = "open" => op.path \in Paths
    /\ pc = "corrupt" => op.kind = "list"
    /\ pc \in {"patch", "stored"} => op.kind = "write"
    /\ pc = "entries" => op.kind \in {"open", "list"}
    /\ pc \in {"next", "chain"} => op.kind # "none"
    /\ pc \notin Waiting => call = NoCall
    /\ pc \notin {"unmounted", "mounting", "idle"} => "data" \notin failures
    /\ result.kind \in {"open", "list", "read", "write"} => pc = "idle"

OpenFile == [kind : {"open"}, directory : BOOLEAN, size : Nat, record : fat_file]

\* Only files are read and written as files.
FileOpen ==
    /\ file \in OpenFile \cup {NULL}
    /\ op.kind \in {"read", "write"} /\ pc \notin {"idle", "unmounted", "mounting"} =>
          file # NULL /\ ~file.directory

\* A write that missed a FAT sector may have written anywhere, and the driver does
\* nothing after it: the file that it was of is no directory.
Damaged == op.kind = "write" /\ "fat" \in failures
DamagedFile == Damaged /\ file # NULL => ~file.directory

\* Bytes of files are all that differs from the volume as it was made.
Sound ==
    /\ DOMAIN disk = Sector
    /\ \A s \in Sector : \A b \in Cell :
          \/ disk[s][b] = DiskOf(made)[s][b]
          \/ disk[s][b].kind = "byte" /\ DiskOf(made)[s][b].kind = "byte"

Located == cluster \in Nat /\ (pc \in {"unmounted", "mounting"} \/ volume = made.bpb)

Whole == file # NULL /\ ~file.directory => Holds(made, file.record.first_cluster, file.size)

\* A read is under way, or what it has answered is on the disk.
Reads(start, count) ==
    \/ call = [kind |-> "read", start |-> start, count |-> count, content |-> <<>>]
    \/ /\ call = NoCall
       /\ answer.ok => /\ start..start + count - 1 \subseteq Sector
                       /\ answer.data = [k \in 0..count - 1 |-> disk[start + k]]

ClusterStart == Partition.start_sector + FirstSector(volume, cluster)
InCluster == 0..volume.sectors_per_cluster - 1

\* A cluster is written back: of the sectors read, the bytes of the portion are replaced.
Writes ==
    \/ /\ call.kind = "write" /\ call.start = ClusterStart
       /\ call.count = volume.sectors_per_cluster
       /\ \A s \in InCluster : ClusterStart + s \in Sector
       /\ \A s \in InCluster : \A b \in Cell :
             call.content[s][b] = IF s * SectorSize + b < Portion THEN inbuf[s * SectorSize + b]
                                  ELSE disk[ClusterStart + s][b]
    \/ /\ call = NoCall
       /\ answer.ok => /\ \A s \in InCluster : ClusterStart + s \in Sector
                       /\ \A s \in InCluster : \A b \in Cell :
                             s * SectorSize + b < Portion =>
                                 disk[ClusterStart + s][b] = inbuf[s * SectorSize + b]

Asked ==
    /\ pc = "mounting" => Reads(Partition.start_sector, 1)
    /\ pc = "chain" => Reads(Partition.start_sector + FatSector(volume, cluster), 1)
    /\ pc \in {"entries", "copy", "patch"} =>
          Reads(ClusterStart, volume.sectors_per_cluster)
    /\ pc = "stored" => Writes

-----------------------------------------------------------------------------
Bytes == PerCluster(made.bpb)
Nth(m) == Follow(made, file.record.first_cluster)[m]

\* Before a cluster is transferred, and after it.
Before(m) == cluster = Nth(m) /\ (written = m * Bytes \/ written = Size)
After(m) == cluster = Nth(m) /\ m * Bytes < Size /\ (written = (m + 1) * Bytes \/ written = Size)

OnDisk == {disk[s][b] : s \in Sector, b \in Cell}

Moved ==
    /\ op.kind = "read" => /\ got \in Seq(OnDisk) /\ Len(got) = written
                           /\ \A k \in 1..written : got[k] = AtPlace(k - 1)
    /\ op.kind = "write" => \A k \in 0..written - 1 :
                               k < Bytes => Place(k)[1] \in Sector /\ AtPlace(k) = inbuf[k]

\* A transfer that missed no FAT sector has moved the clusters of the file in order.
Progress ==
    op.kind \in {"read", "write"} /\ pc \notin {"idle", "unmounted", "mounting"} /\ failures = {} =>
        /\ written \in 0..Size
        /\ IF pc \in {"next", "chain"} THEN \E m \in 0..Clusters : After(m)
           ELSE \E m \in 0..Clusters : Before(m)
        /\ pc \in {"copy", "patch", "stored"} => Transferring
        /\ Moved

IInv ==
    /\ Control /\ FileOpen /\ DamagedFile
    /\ ~Damaged => Sound /\ Located /\ Whole /\ Asked /\ Progress
    /\ TransfersMatch
-----------------------------------------------------------------------------
\* Arithmetic.
LEMMA Constants ==
  /\ SectorSize \in Nat /\ SectorSize > 0 /\ Clusters \in Nat /\ Clusters > 0
  /\ EOC \in Nat /\ EOC > Clusters + 1 /\ Wrap \in Nat /\ Wrap > 0 /\ DiskSize \in Nat
  /\ Partition.start_sector \in Nat
BY GptAssumption, FatAssumption DEF gpt_partition_entry

LEMMA Division ==
  ASSUME NEW a \in Nat, NEW p \in Nat, p > 0
  PROVE  /\ a \div p \in Nat /\ a % p \in 0..p - 1
         /\ a = (a \div p) * p + (a % p)
<1>1. \A b \in Nat \ {0} : a \div b \in Nat /\ a % b \in 0..b - 1 /\ a = b * (a \div b) + (a % b)
  OBVIOUS
<1>2. \A b \in Nat \ {0}, q \in Nat : b * q = q * b
  OBVIOUS
<1> QED  BY <1>1, <1>2

LEMMA DivisionOf ==
  ASSUME NEW q \in Nat, NEW p \in Nat, NEW r \in 0..p - 1
  PROVE  (q * p + r) \div p = q /\ (q * p + r) % p = r
OBVIOUS

LEMMA Below ==
  ASSUME NEW a \in Nat, NEW n \in Nat, NEW p \in Nat, p > 0, a < n * p
  PROVE  a \div p < n
OBVIOUS

\* A byte of a cluster, as a byte of one of its sectors.
Product(t, n, p) == t = n * p
Levels(m, n, p, t, j) ==
    /\ m * t + j \in Nat
    /\ (m * t + j) \div t = m /\ (m * t + j) % t = j
    /\ j \div p \in 0..n - 1 /\ j % p \in 0..p - 1
    /\ (m * t + j) % p = j % p
    /\ j = (j \div p) * p + (j % p)

LEMMA TwoLevels ==
  ASSUME NEW m \in Nat, NEW n \in Nat, n > 0, NEW p \in Nat, p > 0,
         NEW t \in Nat, Product(t, n, p), NEW j \in 0..t - 1
  PROVE  Levels(m, n, p, t, j)
<1>1. t \in Nat /\ t > 0 /\ t = n * p
  BY DEF Product
<1>2. (m * t + j) \div t = m /\ (m * t + j) % t = j
  <2>1. \A u \in Nat : j \in 0..u - 1 => (m * u + j) \div u = m /\ (m * u + j) % u = j
    BY DivisionOf
  <2> QED  BY <1>1, <2>1
<1>3. j \in Nat /\ j \div p \in Nat /\ j % p \in 0..p - 1 /\ j = (j \div p) * p + (j % p)
  BY <1>1, Division
<1>4. j \div p < n
  BY <1>3, <1>1, Below
<1> DEFINE q == j \div p
           r == j % p
<1>5. q \in Nat /\ r \in 0..p - 1 /\ j = q * p + r
  BY <1>3
<1> HIDE DEF q, r
<1>6. m * t + j = (m * n + q) * p + r
  BY <1>1, <1>5
<1>7. m * n + q \in Nat
  BY <1>5
<1>8. ((m * n + q) * p + r) % p = r
  BY <1>5, <1>7, DivisionOf
<1>9. (m * t + j) % p = r
  BY <1>6, <1>8, Zenon
<1>10. m * t + j \in Nat
  <2>1. \A u \in Nat : m * u \in Nat
    OBVIOUS
  <2> QED  BY <1>1, <1>3, <2>1
<1> QED  BY <1>2, <1>3, <1>4, <1>9, <1>10 DEF r, Levels

\* A nonempty set of numbers has a least element.
LEMMA Least ==
  ASSUME NEW T, T \subseteq Nat, T # {}
  PROVE  \E x \in T : \A y \in T : x <= y
<1> DEFINE R == OpToRel(<, Nat)
<1>1. IsWellFoundedOn(R, Nat)
  BY NatLessThanWellFounded
<1>2. \A x, y \in Nat : <<y, x>> \in R <=> y < x
  BY DEF OpToRel
<1> HIDE DEF R
<1>3. PICK x \in T : \A y \in T : ~(<<y, x>> \in R)
  BY <1>1, WFMin
<1>4. ASSUME NEW y \in T PROVE x <= y
  BY <1>2, <1>3, x \in Nat /\ y \in Nat /\ ~(y < x)
<1> QED  BY <1>4

\* The recursion of Follow has a solution, so Follow is one: of the numbers up to which
\* it had none there would be a least.
LEMMA FollowIs ==
  ASSUME NEW v, NEW c
  PROVE  /\ Follow(v, c)[0] = c
         /\ \A k \in 0..Clusters - 1 :
              Follow(v, c)[k + 1] =
                  IF Follow(v, c)[k] < EOC THEN v.fat[Follow(v, c)[k]] ELSE EOC
<1> DEFINE step(x) == IF x < EOC THEN v.fat[x] ELSE EOC
           solves(g, n) == g = [k \in 0..n |-> IF k = 0 THEN c ELSE step(g[k - 1])]
           T == {n \in Nat : ~ \E g : solves(g, n)}
<1>1. T = {}
  <2> SUFFICES ASSUME T # {} PROVE FALSE
    OBVIOUS
  <2>1. PICK n \in T : \A m \in T : n <= m
    <3>1. T \subseteq Nat
      OBVIOUS
    <3> QED  BY <3>1, Least
  <2>2. CASE n = 0
    <3> DEFINE g == [k \in 0..0 |-> c]
    <3>1. solves(g, 0)
      OBVIOUS
    <3> QED  BY <2>1, <2>2, <3>1
  <2>3. CASE n # 0
    <3>1. n - 1 \in Nat /\ n - 1 \notin T
      BY <2>1, <2>3
    <3>2. PICK g : solves(g, n - 1)
      BY <3>1
    <3> DEFINE h == [k \in 0..n |-> IF k = n THEN step(g[n - 1]) ELSE g[k]]
    <3>3. \A k \in 0..n : h[k] = IF k = 0 THEN c ELSE step(h[k - 1])
      <4>1. n \in Nat
        BY <2>1
      <4>2. \A k \in 0..n - 1 : g[k] = IF k = 0 THEN c ELSE step(g[k - 1])
        <5> HIDE DEF step
        <5> QED  BY <3>2
      <4> HIDE DEF step
      <4> QED  BY <4>1, <4>2, <2>3
    <3>4. solves(h, n)
      <4> HIDE DEF step
      <4>1. h = [k \in 0..n |-> h[k]]
        OBVIOUS
      <4> HIDE DEF h
      <4> QED  BY <3>3, <4>1
    <3> QED  BY <2>1, <3>4
  <2> QED  BY <2>2, <2>3
<1>2. \E g : solves(g, Clusters)
  BY <1>1, Constants
<1>3. solves(Follow(v, c), Clusters)
  <2> DEFINE good(g) ==
        g = [k \in 0..Clusters |->
                IF k = 0 THEN c ELSE IF g[k - 1] < EOC THEN v.fat[g[k - 1]] ELSE EOC]
  <2>1. \E g : good(g)
    BY <1>2
  <2>2. good(CHOOSE g : good(g))
    <3> HIDE DEF good
    <3> QED  BY <2>1
  <2>3. Follow(v, c) = CHOOSE g : good(g)
    BY DEF Follow
  <2> QED  BY <2>2, <2>3
<1> HIDE DEF T
<1> DEFINE f == Follow(v, c)
<1> HIDE DEF f, step
<1>4. f = [k \in 0..Clusters |-> IF k = 0 THEN c ELSE step(f[k - 1])]
  BY <1>3 DEF f
<1>5. f[0] = c
  BY <1>4, Constants
<1>6. ASSUME NEW k \in 0..Clusters - 1 PROVE f[k + 1] = step(f[k])
  <2>1. k + 1 \in 0..Clusters /\ k + 1 # 0 /\ (k + 1) - 1 = k
    BY Constants
  <2>2. f[k + 1] = step(f[(k + 1) - 1])
    BY <1>4, <2>1
  <2> QED  BY <2>1, <2>2
<1> QED  BY <1>5, <1>6 DEF f, step

-----------------------------------------------------------------------------
\* Where things lie on a volume.
LEMMA Shape ==
  ASSUME NEW v \in Volumes
  PROVE  /\ v.bpb.sectors_per_cluster \in Nat /\ v.bpb.sectors_per_cluster > 0
         /\ v.bpb.reserved_sectors \in Nat /\ v.bpb.reserved_sectors > 0
         /\ v.bpb.fats \in Nat /\ v.bpb.fats > 0
         /\ FatSize(v.bpb) \in Nat /\ Clusters + 1 < FatSize(v.bpb) * SectorSize
         /\ FirstDataSector(v.bpb) \in Nat /\ FirstDataSector(v.bpb) > 0
         /\ FirstDataSector(v.bpb) + Clusters * v.bpb.sectors_per_cluster <= Wrap
         /\ PerCluster(v.bpb) \in Nat /\ PerCluster(v.bpb) > 0
         /\ v.bpb.extended.root_cluster \in 2..Clusters + 1
         /\ v.fat \in [0..Clusters + 1 -> Nat]
<1> DEFINE b == v.bpb
<1>1. /\ b.sectors_per_cluster \in Nat \ {0} /\ b.reserved_sectors \in Nat \ {0} /\ b.fats \in Nat \ {0}
      /\ b.sectors_per_fat \in Nat /\ b.extended.sectors_per_fat \in Nat
      /\ b.extended.root_cluster \in 2..Clusters + 1
  BY VolumesAssumption DEF fat_boot_sector
<1>2. v.fat \in [0..Clusters + 1 -> Nat]
  BY VolumesAssumption
<1>3. /\ Clusters + 1 < FatSize(b) * SectorSize
      /\ FirstDataSector(b) + Clusters * b.sectors_per_cluster <= Wrap
  BY IntactAssumption
<1> HIDE DEF b
<1>4. FatSize(b) \in Nat
  BY <1>1 DEF FatSize
<1>5. FirstDataSector(b) \in Nat /\ FirstDataSector(b) > 0
  <2>1. \A f \in Nat, n \in Nat : f * n \in Nat
    OBVIOUS
  <2>2. b.fats * FatSize(b) \in Nat
    BY <1>1, <1>4, <2>1
  <2> QED  BY <1>1, <2>2 DEF FirstDataSector
<1>6. PerCluster(b) \in Nat /\ PerCluster(b) > 0
  <2>1. \A f \in Nat \ {0}, n \in Nat \ {0} : f * n \in Nat /\ f * n > 0
    OBVIOUS
  <2> QED  BY <1>1, <2>1, Constants DEF PerCluster
<1> QED  BY <1>1, <1>2, <1>3, <1>4, <1>5, <1>6 DEF b

\* No number of a sector wraps.
LEMMA FirstSectorIs ==
  ASSUME NEW v \in Volumes, NEW c \in 2..Clusters + 1
  PROVE  /\ FirstSector(v.bpb, c) = (c - 2) * v.bpb.sectors_per_cluster + FirstDataSector(v.bpb)
         /\ FirstSector(v.bpb, c) \in Nat
<1> DEFINE n == v.bpb.sectors_per_cluster
           d == FirstDataSector(v.bpb)
<1>1. n \in Nat /\ n > 0 /\ d \in Nat /\ d + Clusters * n <= Wrap /\ Wrap \in Nat /\ Clusters \in Nat
  BY Shape, Constants
<1>2. FirstSector(v.bpb, c) = ((c - 2) * n + d) % Wrap
  BY DEF FirstSector
<1> HIDE DEF n, d
<1>3. (c - 2) * n \in Nat /\ (c - 2) * n + n <= Clusters * n
  <2>1. \A q \in Nat, r \in Nat : q < r => q * n \in Nat /\ q * n + n <= r * n
    BY <1>1
  <2>2. c - 2 \in Nat /\ c - 2 < Clusters
    BY <1>1
  <2> QED  BY <1>1, <2>1, <2>2
<1>4. (c - 2) * n + d \in Nat /\ (c - 2) * n + d < Wrap
  BY <1>1, <1>3
<1>5. \A x \in Nat : x < Wrap => x % Wrap = x
  BY <1>1
<1> QED  BY <1>2, <1>4, <1>5 DEF n, d

LEMMA DataPlace ==
  ASSUME NEW v \in Volumes, NEW c \in 2..Clusters + 1,
         NEW k \in 0..v.bpb.sectors_per_cluster - 1, NEW b \in Cell,
         NEW s \in Sector, s = Partition.start_sector + FirstSector(v.bpb, c) + k
  PROVE  DiskOf(v)[s][b] = DataCell(v, c, k * SectorSize + b)
<1> DEFINE n == v.bpb.sectors_per_cluster
           first == FirstDataSector(v.bpb)
           r == s - Partition.start_sector
           f == r - v.bpb.reserved_sectors
           d == r - FirstDataSector(v.bpb)
           C == 2 + d \div v.bpb.sectors_per_cluster
<1>1. /\ n \in Nat /\ n > 0 /\ first \in Nat /\ first > 0 /\ c - 2 \in Nat /\ k \in 0..n - 1
      /\ Partition.start_sector \in Nat
  BY Shape, Constants
<1>2. r = ((c - 2) * n + first) + k /\ d = (c - 2) * n + k
  <2>1. FirstSector(v.bpb, c) = (c - 2) * n + first /\ FirstSector(v.bpb, c) \in Nat
    BY FirstSectorIs
  <2> HIDE DEF n, first
  <2>2. (c - 2) * n \in Nat
    BY <1>1
  <2> QED  BY <1>1, <2>1, <2>2 DEF first
<1>3. d \in Nat /\ d \div n = c - 2 /\ d % n = k /\ r # 0
  <2> HIDE DEF n, first, r, d
  <2>1. (c - 2) * n \in Nat
    BY <1>1
  <2>2. r > 0 /\ d \in Nat
    BY <1>1, <1>2, <2>1
  <2>3. ((c - 2) * n + k) \div n = c - 2 /\ ((c - 2) * n + k) % n = k
    BY <1>1, DivisionOf
  <2> QED  BY <1>2, <2>2, <2>3
<1>4. C = c
  BY <1>1, <1>3 DEF n
<1>5. DiskOf(v)[s][b] =
        IF r = 0 THEN [kind |-> "boot", bpb |-> v.bpb]
        ELSE IF f >= 0 /\ d < 0 THEN FatCell(v, (f % FatSize(v.bpb)) * SectorSize + b)
        ELSE IF d >= 0 /\ C \in 2..Clusters + 1
             THEN DataCell(v, C, (d % n) * SectorSize + b)
        ELSE ByteAt(0, s)
  BY DEF DiskOf
<1> HIDE DEF r, f, d, C, n, first
<1>6. ~(d < 0) /\ d >= 0
  BY <1>3
<1> QED  BY <1>3, <1>4, <1>5, <1>6

LEMMA FatPlace ==
  ASSUME NEW v \in Volumes, NEW c \in 0..Clusters + 1,
         NEW s \in Sector, s = Partition.start_sector + FatSector(v.bpb, c)
  PROVE  DiskOf(v)[s][c % SectorSize] = [kind |-> "next", cluster |-> v.fat[c]]
<1> DEFINE r == s - Partition.start_sector
           f == r - v.bpb.reserved_sectors
           d == r - FirstDataSector(v.bpb)
           size == FatSize(v.bpb)
           q == c \div SectorSize
           b == c % SectorSize
<1>1. /\ c \in Nat /\ q \in Nat /\ b \in Cell /\ c = q * SectorSize + b
  <2>1. c \in Nat
    BY Constants
  <2> QED  BY <2>1, Constants, Division DEF Cell
<1>2. q < size /\ size \in Nat
  <2>1. size \in Nat /\ c < size * SectorSize
    BY Shape, Constants
  <2> HIDE DEF size
  <2> QED  BY <1>1, <2>1, Constants, Below
<1>3. /\ v.bpb.reserved_sectors \in Nat /\ v.bpb.reserved_sectors > 0
      /\ v.bpb.fats \in Nat /\ v.bpb.fats > 0 /\ Partition.start_sector \in Nat
  BY Shape, Constants
<1>4. r = v.bpb.reserved_sectors + q
  BY <1>1, <1>3 DEF FatSector
<1>5. r > 0 /\ f = q /\ d < 0
  <2>1. \A x \in Nat, y \in Nat : x > 0 => y <= x * y
    OBVIOUS
  <2>2. size <= v.bpb.fats * size /\ v.bpb.fats * size \in Nat
    BY <2>1, <1>2, <1>3
  <2>3. d = r - (v.bpb.reserved_sectors + v.bpb.fats * size)
    BY DEF FirstDataSector
  <2> HIDE DEF r, size, q, d
  <2> QED  BY <1>1, <1>2, <1>3, <1>4, <2>2, <2>3 DEF f
<1>6. f % size = q
  <2>1. \A x \in Nat, y \in Nat : x < y => x % y = x
    OBVIOUS
  <2> HIDE DEF q, size, f
  <2> QED  BY <1>1, <1>2, <1>5, <2>1
<1>7. DiskOf(v)[s][b] =
        IF r = 0 THEN [kind |-> "boot", bpb |-> v.bpb]
        ELSE IF f >= 0 /\ d < 0 THEN FatCell(v, (f % FatSize(v.bpb)) * SectorSize + b)
        ELSE IF d >= 0 /\ 2 + d \div v.bpb.sectors_per_cluster \in 2..Clusters + 1
             THEN DataCell(v, 2 + d \div v.bpb.sectors_per_cluster,
                           (d % v.bpb.sectors_per_cluster) * SectorSize + b)
        ELSE ByteAt(0, s)
  <2>1. b \in Cell
    BY <1>1
  <2> HIDE DEF b
  <2> QED  BY <2>1 DEF DiskOf
<1>8. FatCell(v, c) = [kind |-> "next", cluster |-> v.fat[c]]
  BY Shape DEF FatCell
<1> HIDE DEF r, f, d, size, q, b
<1>9. r # 0 /\ f >= 0 /\ (f % FatSize(v.bpb)) * SectorSize + b = c
  BY <1>1, <1>5, <1>6 DEF size
<1>10. DiskOf(v)[s][b] = [kind |-> "next", cluster |-> v.fat[c]]
  BY <1>5, <1>7, <1>8, <1>9
<1> QED  BY <1>10 DEF b

LEMMA BootPlace ==
  ASSUME NEW v \in Volumes, Partition.start_sector \in Sector
  PROVE  0 \in Cell /\ DiskOf(v)[Partition.start_sector][0] = [kind |-> "boot", bpb |-> v.bpb]
<1>1. 0 \in Cell /\ Partition.start_sector - Partition.start_sector = 0
  BY Constants DEF Cell
<1> QED  BY <1>1 DEF DiskOf


\* An entry of a file that is found anywhere on the disk is one of the volume's.
Entry(v, x) ==
    /\ x \in fat_file
    /\ IF "DIRECTORY" \in x.attributes THEN x.first_cluster \in v.directories \cup {0}
       ELSE Holds(v, x.first_cluster, x.size) /\ x.first_cluster \notin DOMAIN v.entries

LEMMA EntryCell ==
  ASSUME NEW v \in Volumes, NEW c, NEW j \in Nat, DataCell(v, c, j).kind = "file"
  PROVE  Entry(v, DataCell(v, c, j))
<1> DEFINE x == DataCell(v, c, j)
<1>1. c \in DOMAIN v.entries /\ j < Len(v.entries[c]) /\ x = v.entries[c][j + 1]
  BY DEF DataCell, ByteAt, END
<1>2. v.entries[c] \in Seq(fat_file \cup fat_long_filename \cup {[kind |-> "deleted"]})
  BY <1>1, VolumesAssumption
<1>3. j + 1 \in DOMAIN v.entries[c]
  BY <1>1, <1>2
<1>4. x \in fat_file \cup fat_long_filename \cup {[kind |-> "deleted"]}
  BY <1>1, <1>2, <1>3
<1>5. x \in fat_file
  BY <1>4 DEF fat_long_filename
<1>6. "DIRECTORY" \notin x.attributes => Holds(v, x.first_cluster, x.size)
  BY <1>1, <1>3, IntactAssumption
<1>7. IF "DIRECTORY" \in x.attributes THEN x.first_cluster \in v.directories \cup {0}
      ELSE x.first_cluster \notin DOMAIN v.entries
  BY <1>1, <1>3, DirectoriesAssumption
<1> QED  BY <1>5, <1>6, <1>7 DEF Entry

LEMMA FileCell ==
  ASSUME Sound, made \in Volumes, NEW s \in Sector, NEW b \in Cell, disk[s][b].kind = "file"
  PROVE  Entry(made, disk[s][b])
<1> DEFINE v == made
           x == DiskOf(v)[s][b]
           r == s - Partition.start_sector
           f == r - v.bpb.reserved_sectors
           d == r - FirstDataSector(v.bpb)
           n == v.bpb.sectors_per_cluster
<1>1. disk[s][b] = x
  BY DEF Sound
<1>2. x = IF r = 0 THEN [kind |-> "boot", bpb |-> v.bpb]
          ELSE IF f >= 0 /\ d < 0 THEN FatCell(v, (f % FatSize(v.bpb)) * SectorSize + b)
          ELSE IF d >= 0 /\ 2 + d \div n \in 2..Clusters + 1
               THEN DataCell(v, 2 + d \div n, (d % n) * SectorSize + b)
          ELSE ByteAt(0, s)
  BY DEF DiskOf
<1> HIDE DEF v, x, r, f, d, n
<1>3. ~(r = 0) /\ ~(f >= 0 /\ d < 0) /\ d >= 0
      /\ x = DataCell(v, 2 + d \div n, (d % n) * SectorSize + b)
  BY <1>1, <1>2 DEF FatCell, ByteAt
<1>4. (d % n) * SectorSize + b \in Nat
  <2>1. d \in Nat /\ n \in Nat /\ n > 0 /\ b \in Nat
    <3>1. s \in Int /\ Partition.start_sector \in Int /\ b \in Nat
      BY Constants DEF Sector, Cell
    <3>2. FirstDataSector(made.bpb) \in Nat /\ made.bpb.sectors_per_cluster \in Nat
          /\ made.bpb.sectors_per_cluster > 0
      BY Shape
    <3>3. d \in Int
      BY <3>1, <3>2 DEF d, r, v
    <3> QED  BY <3>1, <3>2, <3>3, <1>3 DEF n, v
  <2>2. d % n \in Nat
    BY <2>1, Division
  <2>3. \A q \in Nat, p \in Nat : q * p \in Nat
    OBVIOUS
  <2> QED  BY <2>1, <2>2, <2>3, Constants
<1>5. Entry(v, x)
  BY <1>1, <1>3, <1>4, EntryCell DEF v
<1> QED  BY <1>1, <1>5 DEF v

LEMMA PlaceOf ==
  ASSUME made \in Volumes, NEW m \in Nat, NEW j \in 0..Bytes - 1
  PROVE  /\ m * Bytes + j \in Nat
         /\ Place(m * Bytes + j) =
              <<Partition.start_sector + (FirstSector(made.bpb, Nth(m)) + j \div SectorSize),
                j % SectorSize>>
         /\ j \div SectorSize \in 0..made.bpb.sectors_per_cluster - 1 /\ j % SectorSize \in Cell
         /\ j = (j \div SectorSize) * SectorSize + (j % SectorSize)
<1> DEFINE n == made.bpb.sectors_per_cluster
<1>1. n \in Nat /\ n > 0 /\ SectorSize \in Nat /\ SectorSize > 0
      /\ Bytes \in Nat /\ Product(Bytes, n, SectorSize)
  BY Shape, Constants DEF Bytes, PerCluster, Product
<1> HIDE DEF n
<1>3. /\ m * Bytes + j \in Nat
      /\ (m * Bytes + j) \div Bytes = m /\ (m * Bytes + j) % Bytes = j
      /\ j \div SectorSize \in 0..n - 1 /\ j % SectorSize \in 0..SectorSize - 1
      /\ (m * Bytes + j) % SectorSize = j % SectorSize
      /\ j = (j \div SectorSize) * SectorSize + (j % SectorSize)
  <2>1. Levels(m, n, SectorSize, Bytes, j)
    <3> HIDE DEF Bytes
    <3> QED  BY <1>1, TwoLevels
  <2> QED  BY <2>1 DEF Levels
<1> DEFINE k == m * Bytes + j
<1>4. Place(k) =
        <<Partition.start_sector
            + (FirstSector(made.bpb, Nth(k \div Bytes)) + (k % Bytes) \div SectorSize),
          k % SectorSize>>
  BY DEF Place, Nth, Bytes
<1> QED  BY <1>3, <1>4 DEF n, Cell

\* Different clusters have no sector in common.
LEMMA Apart ==
  ASSUME made \in Volumes, NEW c \in 2..Clusters + 1, NEW x \in 2..Clusters + 1,
         NEW k \in 0..made.bpb.sectors_per_cluster - 1,
         NEW l \in 0..made.bpb.sectors_per_cluster - 1,
         FirstSector(made.bpb, c) + k = FirstSector(made.bpb, x) + l
  PROVE  c = x /\ k = l
<1> DEFINE n == made.bpb.sectors_per_cluster
           d == FirstDataSector(made.bpb)
<1>1. n \in Nat /\ n > 0 /\ d \in Nat /\ c - 2 \in Nat /\ x - 2 \in Nat
  BY Shape, Constants
<1>2. /\ FirstSector(made.bpb, c) = (c - 2) * n + d
      /\ FirstSector(made.bpb, x) = (x - 2) * n + d
  BY FirstSectorIs
<1>3. k \in 0..n - 1 /\ l \in 0..n - 1
  OBVIOUS
<1> HIDE DEF n, d
<1>4. (c - 2) * n \in Nat /\ (x - 2) * n \in Nat
  BY <1>1
<1>5. (c - 2) * n + k = (x - 2) * n + l
  BY <1>1, <1>2, <1>3, <1>4
<1>6. /\ ((c - 2) * n + k) \div n = c - 2 /\ ((c - 2) * n + k) % n = k
      /\ ((x - 2) * n + l) \div n = x - 2 /\ ((x - 2) * n + l) % n = l
  <2>1. \A q \in Nat, r \in 0..n - 1 : (q * n + r) \div n = q /\ (q * n + r) % n = r
    BY <1>1, DivisionOf
  <2> QED  BY <1>1, <1>3, <2>1
<1>7. c - 2 = x - 2 /\ k = l
  BY <1>5, <1>6
<1>8. c \in Int /\ x \in Int
  BY Constants
<1> QED  BY <1>7, <1>8


-----------------------------------------------------------------------------
\* The steps, one by one.
Other == UNCHANGED <<made, volume, file, pc, op, callVars, result, failures>>

LEMMA Steps ==
  ASSUME Next
  PROVE  \/ Mount \/ MountReturns \/ Unmount
         \/ \E p \in Paths : Open(p)
         \/ OpenRoot \/ SearchCluster \/ Search \/ SearchEnds \/ Close
         \/ \E n \in Sizes : ReadDir(n)
         \/ \E n \in Sizes : ReadFile(n)
         \/ \E n \in Sizes : WriteFile(n)
         \/ \E n \in Sizes : WriteDirectory(n)
         \/ ListCluster \/ List \/ ListEnds
         \/ ReadCluster \/ CopyCluster \/ ReadEnds
         \/ WriteCluster \/ PatchCluster \/ Stored \/ WriteEnds
         \/ NextCluster \/ ChainRead
         \/ Device /\ call # NoCall /\ Other
BY DEF Next, Driver, Other

LEMMA ControlStep ==
  ASSUME Control, Next
  PROVE  Control'
<1> USE DEF Control, Waiting, NULL, NoCall, Asks, Begins, Returns, Answered, ReadClusterThen,
            gpt_read_partition, BeginRead, deviceVars, callVars
<1>1. CASE Mount
  BY <1>1 DEF Mount
<1>2. CASE MountReturns
  BY <1>2 DEF MountReturns
<1>3. CASE Unmount
  BY <1>3 DEF Unmount
<1>4. CASE \E p \in Paths : Open(p)
  BY <1>4 DEF Open
<1>5. CASE OpenRoot
  BY <1>5 DEF OpenRoot
<1>6. CASE SearchCluster
  BY <1>6 DEF SearchCluster, EnterCluster
<1>7. CASE Search
  BY <1>7 DEF Search, OpenFails, Found, EntriesEnd, SkipEntry
<1>8. CASE SearchEnds
  BY <1>8 DEF SearchEnds, OpenFails
<1>9. CASE Close
  BY <1>9 DEF Close
<1>10. CASE \E n \in Sizes : ReadDir(n)
  BY <1>10, FatAssumption DEF ReadDir
<1>11. CASE \E n \in Sizes : ReadFile(n)
  BY <1>11, FatAssumption DEF ReadFile
<1>12. CASE \E n \in Sizes : WriteFile(n)
  BY <1>12, FatAssumption DEF WriteFile
<1>13. CASE \E n \in Sizes : WriteDirectory(n)
  BY <1>13, FatAssumption DEF WriteDirectory
<1>14. CASE ListCluster
  BY <1>14 DEF ListCluster, EnterCluster
<1>15. CASE List
  BY <1>15 DEF List, EntriesEnd, ListFile, SkipEntry
<1>16. CASE ListEnds
  BY <1>16 DEF ListEnds
<1>17. CASE ReadCluster
  BY <1>17 DEF ReadCluster
<1>18. CASE CopyCluster
  BY <1>18 DEF CopyCluster
<1>19. CASE ReadEnds
  BY <1>19 DEF ReadEnds
<1>20. CASE WriteCluster
  <2>1. pc = "write" /\ call = NoCall /\ op.kind = "write"
    BY <1>20 DEF WriteCluster
  <2>2. CASE Returns(0) /\ UNCHANGED <<file, failures>>
    BY <2>1, <2>2
  <2>3. CASE ReadClusterThen("patch") /\ UNCHANGED callVars
    BY <2>1, <2>3
  <2> QED
    <3> HIDE DEF Control, Waiting, NULL, NoCall, Asks, Returns, ReadClusterThen, callVars
    <3> QED  BY <1>20, <2>2, <2>3 DEF WriteCluster
<1>21. CASE PatchCluster
  BY <1>21 DEF PatchCluster, gpt_write_back, BeginWrite
<1>22. CASE Stored
  BY <1>22 DEF Stored
<1>23. CASE WriteEnds
  BY <1>23 DEF WriteEnds
<1>24. CASE NextCluster
  BY <1>24 DEF NextCluster
<1>25. CASE ChainRead
  BY <1>25 DEF ChainRead
<1>26. CASE Device /\ call # NoCall /\ Other
  BY <1>26 DEF Other, Device, WriteSector, Succeed, GiveUp
<1> QED
  BY <1>1, <1>2, <1>3, <1>4, <1>5, <1>6, <1>7, <1>8, <1>9, <1>10, <1>11, <1>12, <1>13, <1>14,
     <1>15, <1>16, <1>17, <1>18, <1>19, <1>20, <1>21, <1>22, <1>23, <1>24, <1>25, <1>26, Steps


-----------------------------------------------------------------------------
\* What is opened is an entry of the volume, or holds nothing.
LEMMA HoldsNothing ==
  ASSUME NEW v \in Volumes, NEW c
  PROVE  Holds(v, c, 0)
<1>1. PerCluster(v.bpb) \in Nat /\ PerCluster(v.bpb) > 0 /\ Clusters \in Nat
  BY Shape, Constants
<1>2. Used(v, 0) = {}
  <2>1. \A m \in 0..Clusters : m * PerCluster(v.bpb) \in Nat
    BY <1>1
  <2> QED  BY <2>1 DEF Used
<1>3. 0 <= Clusters * PerCluster(v.bpb)
  BY <1>1
<1> QED  BY <1>2, <1>3 DEF Holds

LEMMA JunkIs ==
  ASSUME NEW v \in Volumes
  PROVE  Entry(v, JunkFile)
<1>1. JunkFile \in fat_file
  <2>1. <<>> \in Seq(STRING) /\ 0 \in 0..Clusters + 1 /\ 0 \in 0..8 /\ 0 \in 0..3
    <3>1. \A S : <<>> \in Seq(S)
      OBVIOUS
    <3>2. <<>> \in Seq(STRING)
      BY <3>1, Zenon
    <3> QED  BY <3>2, Constants
  <2> QED  BY <2>1 DEF JunkFile, fat_file
<1>2. Holds(v, JunkFile.first_cluster, JunkFile.size)
  BY HoldsNothing DEF JunkFile
<1>3. JunkFile.first_cluster \notin DOMAIN v.entries
  <2>1. 0 \notin 2..Clusters + 1
    BY Constants
  <2> QED  BY <2>1, DirectoriesAssumption DEF JunkFile
<1>4. "DIRECTORY" \notin JunkFile.attributes
  BY DEF JunkFile
<1> QED  BY <1>1, <1>2, <1>3, <1>4 DEF Entry

LEMMA ClusterStartIs ==
  ASSUME made \in Volumes, cluster \in Nat, volume = made.bpb
  PROVE  ClusterStart \in Nat
<1> DEFINE n == made.bpb.sectors_per_cluster
           d == FirstDataSector(made.bpb)
<1>1. n \in Nat /\ d \in Nat /\ Wrap \in Nat /\ Wrap > 0 /\ Partition.start_sector \in Nat
  BY Shape, Constants
<1>2. FirstSector(volume, cluster) = ((cluster - 2) * n + d) % Wrap
  BY DEF FirstSector
<1> HIDE DEF n, d
<1>3. (cluster - 2) * n + d \in Int
  <2>1. \A p \in Int, q \in Int : p * q \in Int
    OBVIOUS
  <2>2. (cluster - 2) * n \in Int
    BY <1>1, <2>1
  <2> QED  BY <1>1, <2>2
<1>4. \A a \in Int, w \in Nat \ {0} : a % w \in Nat
  OBVIOUS
<1>5. FirstSector(volume, cluster) \in Nat
  BY <1>1, <1>2, <1>3, <1>4
<1> QED  BY <1>1, <1>5 DEF ClusterStart

LEMMA EntryFound ==
  ASSUME made \in Volumes, e \in Nat, cluster \in Nat, volume = made.bpb, Sound,
         Reads(ClusterStart, volume.sectors_per_cluster), call = NoCall, answer.ok,
         NEW x \in EntriesAt(answer.data), x.kind = "file"
  PROVE  Entry(made, x)
<1> DEFINE n == made.bpb.sectors_per_cluster
           start == ClusterStart
           q == e \div SectorSize
           r == e % SectorSize
           data == answer.data
<1>1. CASE x = JunkFile
  BY <1>1, JunkIs
<1>2. CASE x # JunkFile
  <2>1. e < PerCluster(volume) /\ x = data[q][r]
    <3>1. PerCluster(volume) \in Nat /\ PastBound \in Nat
      BY Shape, FatAssumption
    <3>2. x # END
      BY DEF END
    <3>3. e < PerCluster(volume)
      BY <1>2, <3>1, <3>2 DEF EntriesAt
    <3> QED  BY <1>2, <3>1, <3>2, <3>3 DEF EntriesAt
  <2>2. n \in Nat /\ SectorSize \in Nat /\ SectorSize > 0
    BY Shape, Constants
  <2>3. q \in 0..n - 1 /\ r \in Cell
    <3>1. e < n * SectorSize
      BY <2>1 DEF PerCluster
    <3> HIDE DEF n
    <3>2. q < n /\ q \in Nat /\ r \in 0..SectorSize - 1
      BY <2>2, <3>1, Division, Below
    <3> QED  BY <2>2, <3>2 DEF Cell
  <2>4. /\ start..start + n - 1 \subseteq Sector
        /\ data = [k \in 0..n - 1 |-> disk[start + k]]
    BY DEF Reads, NoCall
  <2>5. start \in Int
    BY ClusterStartIs
  <2> HIDE DEF n, start, q, r, data
  <2>6. start + q \in Sector /\ data[q] = disk[start + q]
    BY <2>2, <2>3, <2>4, <2>5
  <2>7. disk[start + q][r].kind = "file"
    BY <2>1, <2>6
  <2> QED  BY <2>1, <2>3, <2>6, <2>7, FileCell
<1> QED  BY <1>1, <1>2


-----------------------------------------------------------------------------
\* The open file stays the same while it is open, but for the size in its record.
Opens == \E x : Entry(made, x) /\ file' = fs_file(x)

LEMMA FileChange ==
  ASSUME IInv, Next
  PROVE  \/ UNCHANGED file
         \/ file' = NULL /\ pc' = "idle"
         \/ Opens /\ pc' = "idle" /\ op' = op /\ op.kind = "open"
         \/ file # NULL /\ ~file.directory /\ file' = [file EXCEPT !.record.size = Size] /\ pc' = "idle"
<1>1. Control /\ FileOpen /\ (~Damaged => Sound /\ Located /\ Asked)
  BY DEF IInv
<1>2. ASSUME op.kind = "open", pc \notin {"unmounted", "mounting"}
      PROVE  Sound /\ cluster \in Nat /\ volume = made.bpb /\ Asked /\ made \in Volumes
  BY <1>1, <1>2 DEF Damaged, Located, Control
<1>3. CASE OpenRoot
  <2>1. Entry(made, RootRecord)
    <3>1. volume = made.bpb /\ made \in Volumes
      BY <1>1, <1>2, <1>3 DEF OpenRoot, Control
    <3>2. made.bpb.extended.root_cluster \in 0..Clusters + 1
      <4>1. made.bpb.extended.root_cluster \in 2..Clusters + 1
        BY <3>1, Shape
      <4> QED  BY <4>1, Constants
    <3>3. JunkFile \in fat_file
      BY <3>1, JunkIs DEF Entry
    <3>4. RootRecord \in fat_file
      BY <3>1, <3>2, <3>3 DEF RootRecord, fat_file, Attributes
    <3>5. RootRecord.attributes = {"DIRECTORY"} /\ RootRecord.first_cluster = made.bpb.extended.root_cluster
      BY <3>1 DEF RootRecord, JunkFile
    <3>6. made.bpb.extended.root_cluster \in made.directories
      BY <3>1, DirectoriesAssumption
    <3> QED  BY <3>4, <3>5, <3>6 DEF Entry
  <2>2. file' = fs_file(RootRecord) /\ pc' = "idle" /\ op' = op
    BY <1>3 DEF OpenRoot, Returns
  <2>3. op.kind = "open"
    BY <1>1, <1>3 DEF OpenRoot, Control
  <2> QED  BY <2>1, <2>2, <2>3 DEF Opens
<1>4. CASE Search
  <2>1. op.kind = "open" /\ pc = "entries" /\ call = NoCall
    BY <1>4 DEF Search, Answered
  <2>2. CASE ~answer.ok
    BY <1>4, <2>2 DEF Search, OpenFails
  <2>3. CASE answer.ok
    <3>1. PICK x \in EntriesAt(answer.data) :
             IF x.kind = "file" /\ Matches(x) THEN Found(x)
             ELSE IF x = END THEN EntriesEnd ELSE SkipEntry(x) /\ UNCHANGED <<written, got>>
      BY <1>4, <2>3 DEF Search
    <3>2. CASE x.kind = "file" /\ Matches(x)
      <4>1. Found(x)
        BY <3>1, <3>2
      <4>2. Entry(made, x)
        <5>1. Reads(ClusterStart, volume.sectors_per_cluster) /\ e \in Nat
          BY <1>1, <1>2, <2>1 DEF Asked, Control
        <5> QED  BY <1>2, <2>1, <2>3, <3>2, <5>1, EntryFound
      <4> QED  BY <2>1, <4>1, <4>2 DEF Found, Returns, Opens
    <3>3. CASE ~(x.kind = "file" /\ Matches(x))
      BY <3>1, <3>3 DEF EntriesEnd, SkipEntry
    <3> QED  BY <3>2, <3>3
  <2> QED  BY <2>2, <2>3
<1>5. CASE Close
  BY <1>5 DEF Close
<1>6. CASE WriteEnds
  <2>1. file # NULL /\ ~file.directory
    BY <1>1, <1>6 DEF WriteEnds, FileOpen, Control
  <2> QED  BY <1>6, <2>1 DEF WriteEnds, Returns
<1>7. ASSUME ~OpenRoot, ~Search, ~Close, ~WriteEnds PROVE UNCHANGED file
  BY <1>7, Steps
     DEF Mount, MountReturns, Unmount, Open, SearchCluster, SearchEnds, ReadDir, ReadFile, WriteFile,
         WriteDirectory, ListCluster, List, ListEnds, ReadCluster, CopyCluster, ReadEnds,
         WriteCluster, PatchCluster, Stored, NextCluster, ChainRead, Other, Asks, ReadClusterThen,
         EnterCluster, OpenFails, EntriesEnd, SkipEntry, ListFile
<1> QED  BY <1>3, <1>4, <1>5, <1>6, <1>7


LEMMA OpStays ==
  ASSUME Next, pc \notin {"idle", "unmounted", "mounting"}
  PROVE  UNCHANGED op
<1> USE DEF Asks, ReadClusterThen, EnterCluster, Returns
<1>1. ~Mount /\ ~MountReturns /\ ~Unmount /\ ~Close
  BY DEF Mount, MountReturns, Unmount, Close, Answered
<1>2. /\ \A p \in Paths : ~Open(p)
      /\ \A n \in Sizes : ~ReadDir(n) /\ ~ReadFile(n) /\ ~WriteFile(n) /\ ~WriteDirectory(n)
  BY DEF Open, ReadDir, ReadFile, WriteFile, WriteDirectory, Begins
<1>3. CASE OpenRoot \/ SearchCluster \/ Search \/ SearchEnds
  BY <1>3 DEF OpenRoot, SearchCluster, Search, SearchEnds, OpenFails, Found
<1>4. CASE ListCluster \/ List \/ ListEnds
  BY <1>4 DEF ListCluster, List, ListEnds
<1>5. CASE ReadCluster \/ CopyCluster \/ ReadEnds \/ NextCluster \/ ChainRead
  BY <1>5 DEF ReadCluster, CopyCluster, ReadEnds, NextCluster, ChainRead
<1>6. CASE WriteCluster \/ PatchCluster \/ Stored \/ WriteEnds
  BY <1>6 DEF WriteCluster, PatchCluster, Stored, WriteEnds
<1>7. CASE Other
  BY <1>7 DEF Other
<1> QED
  <2> HIDE DEF Asks, ReadClusterThen, EnterCluster, Returns
  <2> QED  BY <1>1, <1>2, <1>3, <1>4, <1>5, <1>6, <1>7, Steps

\* Only the disk itself writes to the disk.
LEMMA DiskStays ==
  ASSUME Next
  PROVE  UNCHANGED made /\ (UNCHANGED disk \/ (WriteSector /\ Other))
<1> USE DEF Begins, Asks, ReadClusterThen, EnterCluster, Returns, gpt_read_partition, BeginRead,
            deviceVars
<1>1. ASSUME Mount \/ MountReturns \/ Unmount \/ Close PROVE UNCHANGED <<made, disk>>
  BY <1>1 DEF Mount, MountReturns, Unmount, Close
<1>2. ASSUME \/ \E p \in Paths : Open(p)
             \/ \E n \in Sizes : ReadDir(n)
             \/ \E n \in Sizes : ReadFile(n)
             \/ \E n \in Sizes : WriteFile(n)
             \/ \E n \in Sizes : WriteDirectory(n)
      PROVE  UNCHANGED <<made, disk>>
  BY <1>2 DEF Open, ReadDir, ReadFile, WriteFile, WriteDirectory
<1>3. ASSUME OpenRoot \/ SearchCluster \/ Search \/ SearchEnds PROVE UNCHANGED <<made, disk>>
  BY <1>3 DEF OpenRoot, SearchCluster, Search, SearchEnds, OpenFails, Found
<1>4. ASSUME ListCluster \/ List \/ ListEnds PROVE UNCHANGED <<made, disk>>
  BY <1>4 DEF ListCluster, List, ListEnds
<1>5. ASSUME ReadCluster \/ CopyCluster \/ ReadEnds \/ NextCluster \/ ChainRead PROVE UNCHANGED <<made, disk>>
  BY <1>5 DEF ReadCluster, CopyCluster, ReadEnds, NextCluster, ChainRead
<1>6. ASSUME WriteCluster \/ PatchCluster \/ Stored \/ WriteEnds PROVE UNCHANGED <<made, disk>>
  BY <1>6 DEF WriteCluster, PatchCluster, Stored, WriteEnds, gpt_write_back, BeginWrite
<1>7. ASSUME Device /\ call # NoCall /\ Other, ~WriteSector PROVE UNCHANGED <<made, disk>>
  BY <1>7 DEF Device, Succeed, GiveUp, Other
<1>8. ASSUME Other PROVE UNCHANGED made
  BY <1>8 DEF Other
<1> QED
  <2> HIDE DEF Begins, Asks, ReadClusterThen, EnterCluster, Returns, gpt_read_partition, BeginRead,
               deviceVars
  <2>1. UNCHANGED <<made, disk>> \/ (Device /\ call # NoCall /\ Other)
    BY <1>1, <1>2, <1>3, <1>4, <1>5, <1>6, Steps
  <2>2. CASE UNCHANGED <<made, disk>>
    BY <2>2
  <2>3. CASE Device /\ call # NoCall /\ Other
    BY <1>7, <1>8, <2>3
  <2> QED  BY <2>1, <2>2, <2>3

LEMMA FileOpenStep ==
  ASSUME IInv, Next
  PROVE  FileOpen'
<1>1. Control /\ FileOpen
  BY DEF IInv
<1>2. file' \in OpenFile \cup {NULL}
  <2>1. CASE UNCHANGED file
    BY <1>1, <2>1 DEF FileOpen
  <2>2. CASE Opens
    <3>1. PICK x : Entry(made, x) /\ file' = fs_file(x)
      BY <2>2 DEF Opens
    <3>2. x.size \in Nat /\ x \in fat_file
      BY <3>1 DEF Entry, fat_file
    <3>3. ("DIRECTORY" \in x.attributes) \in BOOLEAN
      OBVIOUS
    <3>4. fs_file(x) \in OpenFile
      BY <3>2, <3>3 DEF fs_file, OpenFile
    <3> QED  BY <3>1, <3>4
  <2>3. CASE file # NULL /\ file' = [file EXCEPT !.record.size = Size]
    <3>1. file \in OpenFile
      BY <1>1, <2>3 DEF FileOpen
    <3>2. file.record \in fat_file /\ file.size \in Nat
      BY <3>1 DEF OpenFile
    <3>3. Size \in Nat
      BY <1>1, <3>2 DEF Size, Control
    <3>4. [file.record EXCEPT !.size = Size] \in fat_file
      BY <3>2, <3>3 DEF fat_file
    <3>5. file' = [file EXCEPT !.record = [file.record EXCEPT !.size = Size]]
      BY <2>3
    <3> QED  BY <3>1, <3>4, <3>5 DEF OpenFile
  <2> QED  BY <2>1, <2>2, <2>3, FileChange
<1>3. ASSUME op'.kind \in {"read", "write"}, pc' \notin {"idle", "unmounted", "mounting"}
      PROVE  file' # NULL /\ ~file'.directory
  <2>1. CASE UNCHANGED <<op, file>> /\ pc \notin {"idle", "unmounted", "mounting"}
    BY <1>1, <1>3, <2>1 DEF FileOpen
  <2>2. CASE \E n \in Sizes : ReadFile(n) \/ WriteFile(n)
    BY <2>2 DEF ReadFile, WriteFile
  <2>3. CASE pc \in {"idle", "unmounted", "mounting"} /\ ~(\E n \in Sizes : ReadFile(n) \/ WriteFile(n))
    <3> USE DEF Asks, ReadClusterThen, EnterCluster, Answered
    <3>1. CASE \E p \in Paths : Open(p)
      BY <1>3, <3>1 DEF Open, Begins
    <3>2. CASE \E n \in Sizes : ReadDir(n)
      BY <1>3, <3>2 DEF ReadDir, Begins
    <3>3. CASE \E n \in Sizes : WriteDirectory(n)
      BY <1>3, <3>3, <2>3 DEF WriteDirectory
    <3>4. CASE Mount \/ MountReturns \/ Unmount \/ Close
      BY <1>3, <3>4, <2>3 DEF Mount, MountReturns, Unmount, Close
    <3>5. CASE Device /\ call # NoCall /\ Other
      BY <1>3, <3>5, <2>3 DEF Other
    <3>6. ~OpenRoot /\ ~SearchCluster /\ ~Search /\ ~SearchEnds /\ ~ListCluster /\ ~List /\ ~ListEnds
      BY <2>3 DEF OpenRoot, SearchCluster, Search, SearchEnds, ListCluster, List, ListEnds
    <3>7. ~ReadCluster /\ ~CopyCluster /\ ~ReadEnds /\ ~WriteCluster /\ ~PatchCluster /\ ~Stored
          /\ ~WriteEnds /\ ~NextCluster /\ ~ChainRead
      BY <2>3 DEF ReadCluster, CopyCluster, ReadEnds, WriteCluster, PatchCluster, Stored, WriteEnds,
                  NextCluster, ChainRead
    <3> QED  BY <2>3, <3>1, <3>2, <3>3, <3>4, <3>5, <3>6, <3>7, Steps
  <2>4. pc \notin {"idle", "unmounted", "mounting"} => UNCHANGED op
    BY OpStays
  <2>5. CASE pc \notin {"idle", "unmounted", "mounting"} /\ ~UNCHANGED file
    <3>1. op.kind \in {"read", "write"} /\ file # NULL
      BY <1>1, <1>3, <2>4, <2>5 DEF FileOpen
    <3> QED  BY <1>3, <2>5, <3>1, FileChange
  <2> QED  BY <2>1, <2>2, <2>3, <2>4, <2>5
<1> QED  BY <1>2, <1>3 DEF FileOpen


LEMMA Damage ==
  ASSUME Next, Damaged'
  PROVE  UNCHANGED op /\ (Damaged \/ pc = "chain")
<1> USE DEF Damaged, Asks, ReadClusterThen, EnterCluster, Returns, Answered
<1>1. CASE Mount \/ MountReturns \/ Unmount \/ Close
  BY <1>1 DEF Mount, MountReturns, Unmount, Close
<1>2. /\ \A p \in Paths : ~Open(p)
      /\ \A n \in Sizes : ~ReadDir(n) /\ ~ReadFile(n) /\ ~WriteFile(n) /\ ~WriteDirectory(n)
  BY DEF Open, ReadDir, ReadFile, WriteFile, WriteDirectory, Begins
<1>3. CASE OpenRoot \/ SearchCluster \/ Search \/ SearchEnds
  BY <1>3 DEF OpenRoot, SearchCluster, Search, SearchEnds, OpenFails, Found
<1>4. CASE ListCluster \/ List \/ ListEnds
  BY <1>4 DEF ListCluster, List, ListEnds
<1>5. CASE ReadCluster \/ CopyCluster \/ ReadEnds \/ NextCluster \/ ChainRead
  BY <1>5 DEF ReadCluster, CopyCluster, ReadEnds, NextCluster, ChainRead
<1>6. CASE WriteCluster
  <2> HIDE DEF ReadClusterThen, Returns
  <2>1. \/ Returns(0) /\ UNCHANGED <<file, failures>>
        \/ ReadClusterThen("patch") /\ UNCHANGED callVars
    BY <1>6 DEF WriteCluster
  <2>2. UNCHANGED <<op, failures>>
    BY <2>1 DEF ReadClusterThen, Returns
  <2> QED  BY <2>2
<1>7. CASE PatchCluster \/ Stored \/ WriteEnds
  BY <1>7 DEF PatchCluster, Stored, WriteEnds
<1>8. CASE Device /\ call # NoCall /\ Other
  BY <1>8 DEF Other
<1> QED  BY <1>1, <1>2, <1>3, <1>4, <1>5, <1>6, <1>7, <1>8, Steps

LEMMA DamagedFileStep ==
  ASSUME IInv, Next
  PROVE  DamagedFile'
<1> SUFFICES ASSUME Damaged', file' # NULL PROVE ~file'.directory
  BY DEF DamagedFile
<1>1. Control /\ FileOpen /\ DamagedFile
  BY DEF IInv
<1>2. op.kind = "write" /\ (file # NULL => ~file.directory)
  BY <1>1, Damage DEF Damaged, DamagedFile, FileOpen, Control
<1>3. CASE UNCHANGED file
  BY <1>2, <1>3
<1>4. CASE file # NULL /\ ~file.directory /\ file' = [file EXCEPT !.record.size = Size]
  <2>1. file \in OpenFile
    BY <1>1, <1>4 DEF FileOpen
  <2>2. file'.directory = file.directory
    BY <1>4, <2>1 DEF OpenFile
  <2> QED  BY <1>4, <2>2
<1> QED  BY <1>2, <1>3, <1>4, FileChange

LEMMA WholeStep ==
  ASSUME IInv, Next, Whole
  PROVE  Whole'
<1>1. Control /\ FileOpen
  BY DEF IInv
<1>2. UNCHANGED made
  BY DiskStays
<1> SUFFICES ASSUME file' # NULL, ~file'.directory
             PROVE  Holds(made, file'.record.first_cluster, file'.size)
  BY <1>2 DEF Whole
<1>3. CASE UNCHANGED file
  BY <1>3 DEF Whole
<1>4. CASE Opens
  <2>1. PICK x : Entry(made, x) /\ file' = fs_file(x)
    BY <1>4 DEF Opens
  <2>2. "DIRECTORY" \notin x.attributes /\ file'.record = x /\ file'.size = x.size
    BY <2>1 DEF fs_file
  <2> QED  BY <2>1, <2>2 DEF Entry
<1>5. CASE file # NULL /\ ~file.directory /\ file' = [file EXCEPT !.record.size = Size]
  <2>1. file \in OpenFile
    BY <1>1, <1>5 DEF FileOpen
  <2>2. file'.size = file.size /\ file'.record.first_cluster = file.record.first_cluster
    BY <1>5, <2>1 DEF OpenFile, fat_file
  <2> QED  BY <1>5, <2>2 DEF Whole
<1> QED  BY <1>3, <1>4, <1>5, FileChange


-----------------------------------------------------------------------------
\* The cluster of a transfer, by its place in the chain of the file.
Current(m) ==
    /\ m \in Used(made, file.size) /\ cluster = Nth(m)
    /\ cluster \in 2..Clusters + 1 /\ cluster \notin DOMAIN made.entries
    /\ written = m * Bytes /\ Portion \in 1..Bytes /\ written + Portion <= Size
    /\ (written + Portion = Size \/ written + Portion = (m + 1) * Bytes)

LEMMA SizeIs ==
  ASSUME Control, file \in OpenFile
  PROVE  /\ Size \in Nat /\ Size <= op.size /\ Size <= file.size /\ file.size \in Nat
         /\ Size = IF op.size < file.size THEN op.size ELSE file.size
<1>1. file.size \in Nat /\ op.size \in Nat
  BY DEF Control, OpenFile
<1> QED  BY <1>1 DEF Size

LEMMA UsedIs ==
  ASSUME made \in Volumes, Whole, file \in OpenFile, ~file.directory, Control,
         NEW m \in 0..Clusters, m * Bytes < Size
  PROVE  /\ m \in Used(made, file.size) /\ m \in 0..Clusters - 1
         /\ Nth(m) \in 2..Clusters + 1 /\ Nth(m) \notin DOMAIN made.entries
<1>1. file # NULL
  BY DEF OpenFile, NULL
<1>2. Holds(made, file.record.first_cluster, file.size)
  BY <1>1 DEF Whole
<1>3. Bytes \in Nat /\ Bytes > 0 /\ Clusters \in Nat
  BY Shape, Constants DEF Bytes
<1>4. m * Bytes \in Nat /\ m * Bytes < file.size
  <2>1. m * Bytes \in Nat
    BY <1>3
  <2> HIDE DEF Bytes
  <2> QED  BY <2>1, SizeIs
<1>5. m \in Used(made, file.size)
  BY <1>4 DEF Used, Bytes
<1>6. Nth(m) \in (2..Clusters + 1) \ DOMAIN made.entries
  BY <1>2, <1>5 DEF Holds, Nth
<1>7. m # Clusters
  <2>1. file.size <= Clusters * Bytes /\ file.size \in Nat
    BY <1>2, SizeIs DEF Holds, Bytes
  <2>2. Clusters * Bytes \in Nat
    BY <1>3
  <2> HIDE DEF Bytes
  <2> QED  BY <1>4, <2>1, <2>2
<1> QED  BY <1>3, <1>5, <1>6, <1>7

LEMMA Transferred ==
  ASSUME IInv, ~Damaged, failures = {}, pc \in {"copy", "patch", "stored"}
  PROVE  \E m \in 0..Clusters - 1 : Current(m)
<1>1. /\ Control /\ FileOpen /\ Whole /\ Progress /\ volume = made.bpb /\ made \in Volumes
  BY DEF IInv, Located, Control
<1>2. op.kind \in {"read", "write"}
  BY <1>1 DEF Control
<1>3. file \in OpenFile /\ ~file.directory
  BY <1>1, <1>2 DEF FileOpen
<1>4. written \in 0..Size /\ (\E m \in 0..Clusters : Before(m)) /\ Transferring
  BY <1>1, <1>2 DEF Progress
<1>5. PICK m \in 0..Clusters : Before(m)
  BY <1>4
<1>6. Bytes \in Nat /\ Bytes > 0 /\ Size \in Nat /\ PerCluster(volume) = Bytes /\ Clusters \in Nat
  BY <1>1, <1>3, Shape, SizeIs, Constants DEF Bytes
<1>7. cluster = Nth(m) /\ written = m * Bytes /\ written < Size
  <2> HIDE DEF Bytes
  <2> QED  BY <1>4, <1>5, <1>6 DEF Before, Transferring
<1>8. /\ m \in Used(made, file.size) /\ m \in 0..Clusters - 1
      /\ Nth(m) \in 2..Clusters + 1 /\ Nth(m) \notin DOMAIN made.entries
  BY <1>1, <1>3, <1>7, UsedIs
<1>9. Portion = IF Size - written < Bytes THEN Size - written ELSE Bytes
  BY <1>6 DEF Portion
<1>10. (m + 1) * Bytes = written + Bytes
  <2> HIDE DEF Bytes
  <2> QED  BY <1>6, <1>7
<1> HIDE DEF Bytes
<1>11. /\ Portion \in 1..Bytes /\ written + Portion <= Size
       /\ (written + Portion = Size \/ written + Portion = (m + 1) * Bytes)
  BY <1>4, <1>6, <1>7, <1>9, <1>10
<1>12. Current(m)
  BY <1>7, <1>8, <1>11 DEF Current
<1> QED  BY <1>8, <1>12

\* A sector is written only of a call whose content differs from the disk in the portion.
Stores(m) ==
    /\ pc = "stored" /\ op.kind = "write" /\ "fat" \notin failures
    /\ file \in OpenFile /\ ~file.directory /\ volume = made.bpb /\ made \in Volumes
    /\ Current(m)
    /\ ClusterStart \in Nat
    /\ call.kind = "write" /\ call.start = ClusterStart
    /\ call.count = made.bpb.sectors_per_cluster
    /\ \A s \in InCluster : ClusterStart + s \in Sector
    /\ \A s \in InCluster : \A b \in Cell :
          call.content[s][b] = IF s * SectorSize + b < Portion THEN inbuf[s * SectorSize + b]
                               ELSE disk[ClusterStart + s][b]

LEMMA Storing ==
  ASSUME IInv, ~Damaged, call.kind = "write"
  PROVE  \E m \in 0..Clusters - 1 : Stores(m)
<1>1. Control /\ FileOpen /\ Asked /\ Located
  BY DEF IInv
<1>2. call # NoCall
  BY DEF NoCall
<1>3. pc = "stored"
  <2>1. pc \in Waiting
    BY <1>1, <1>2 DEF Control
  <2>2. \A a, b : ~Reads(a, b)
    BY <1>2 DEF Reads
  <2> QED  BY <1>1, <2>1, <2>2 DEF Waiting, Asked
<1>4. op.kind = "write" /\ made \in Volumes /\ volume = made.bpb /\ cluster \in Nat
  BY <1>1, <1>3 DEF Control, Located
<1>5. failures = {}
  BY <1>1, <1>3, <1>4 DEF Control, Damaged
<1>6. file \in OpenFile /\ ~file.directory
  BY <1>1, <1>3, <1>4 DEF FileOpen
<1>7. ClusterStart \in Nat
  BY <1>4, ClusterStartIs
<1>8. Writes
  BY <1>1, <1>3 DEF Asked
<1>9. PICK m \in 0..Clusters - 1 : Current(m)
  BY <1>3, <1>5, Transferred
<1>10. Stores(m)
  BY <1>2, <1>3, <1>4, <1>5, <1>6, <1>7, <1>8, <1>9 DEF Stores, Writes
<1> QED  BY <1>10

\* What a sector of it changes are the bytes of the file that it stands for.
LEMMA StoredCell ==
  ASSUME NEW m \in 0..Clusters - 1, Stores(m), WriteSector,
         NEW s \in Sector, NEW b \in Cell, DOMAIN disk = Sector, disk'[s][b] # disk[s][b]
  PROVE  \E k \in 0..made.bpb.sectors_per_cluster - 1 :
            /\ s = ClusterStart + k /\ k * SectorSize + b \in 0..Portion - 1
            /\ disk'[s][b] = inbuf[k * SectorSize + b]
            /\ Place(m * Bytes + (k * SectorSize + b)) = <<s, b>>
<1> DEFINE n == made.bpb.sectors_per_cluster
<1>1. PICK k \in 0..n - 1 : call.start + k \in Sector /\ disk' = [disk EXCEPT ![call.start + k] = call.content[k]]
  BY DEF WriteSector, Stores
<1>2. s = ClusterStart + k /\ disk'[s][b] = call.content[k][b]
  BY <1>1 DEF Stores
<1> DEFINE j == k * SectorSize + b
<1>3. k \in InCluster
  BY DEF InCluster, Stores
<1>4. j < Portion /\ disk'[s][b] = inbuf[j]
  BY <1>2, <1>3 DEF Stores
<1>5. n \in Nat /\ SectorSize \in Nat /\ SectorSize > 0 /\ Portion \in 1..Bytes /\ Bytes \in Nat
      /\ m \in Nat /\ b \in 0..SectorSize - 1 /\ k \in Nat
  BY Shape, Constants DEF Stores, Current, Bytes, Cell
<1>6. j \in Nat /\ j \div SectorSize = k /\ j % SectorSize = b
  <2> HIDE DEF n
  <2>1. \A x \in Nat, y \in Nat : x * y \in Nat
    OBVIOUS
  <2> QED  BY <1>5, <2>1, DivisionOf
<1> HIDE DEF j, n
<1>7. j \in 0..Portion - 1 /\ j \in 0..Bytes - 1
  <2> HIDE DEF Bytes
  <2> QED  BY <1>4, <1>5, <1>6
<1>8. Place(m * Bytes + j) =
        <<Partition.start_sector + (FirstSector(made.bpb, Nth(m)) + k), b>>
  BY <1>5, <1>6, <1>7, PlaceOf DEF Stores
<1>9. ClusterStart = Partition.start_sector + FirstSector(made.bpb, Nth(m))
  BY DEF ClusterStart, Stores, Current
<1>10. Partition.start_sector + (FirstSector(made.bpb, Nth(m)) + k) = ClusterStart + k
  <2>1. FirstSector(made.bpb, Nth(m)) \in Nat
    BY FirstSectorIs DEF Stores, Current
  <2> QED  BY <1>5, <1>9, <2>1, Constants
<1> QED  BY <1>2, <1>4, <1>7, <1>8, <1>10 DEF j, n


LEMMA SoundStep ==
  ASSUME IInv, ~Damaged, Sound, Next
  PROVE  Sound'
<1>1. UNCHANGED made /\ (UNCHANGED disk \/ (WriteSector /\ Other))
  BY DiskStays
<1>2. CASE UNCHANGED disk
  <2>1. DiskOf(made)' = DiskOf(made)
    BY <1>1
  <2> QED  BY <1>2, <2>1 DEF Sound
<1>3. CASE WriteSector
  <2>1. call.kind = "write" /\ DOMAIN disk = Sector
    BY <1>3 DEF WriteSector, Sound
  <2>2. PICK m \in 0..Clusters - 1 : Stores(m)
    BY <2>1, Storing
  <2>3. DOMAIN disk' = Sector
    BY <1>3, <2>1 DEF WriteSector
  <2>4. ASSUME NEW s \in Sector, NEW b \in Cell, disk'[s][b] # disk[s][b]
        PROVE  disk'[s][b].kind = "byte" /\ DiskOf(made)[s][b].kind = "byte"
    <3>1. PICK k \in 0..made.bpb.sectors_per_cluster - 1 :
             /\ s = ClusterStart + k /\ k * SectorSize + b \in 0..Portion - 1
             /\ disk'[s][b] = inbuf[k * SectorSize + b]
      BY <1>3, <2>1, <2>2, <2>4, StoredCell
    <3>2. /\ made \in Volumes /\ volume = made.bpb
          /\ cluster \in 2..Clusters + 1 /\ cluster \notin DOMAIN made.entries
      BY <2>2 DEF Stores, Current
    <3>3. disk'[s][b].kind = "byte"
      <4> DEFINE j == k * SectorSize + b
      <4>1. j \in 0..op.size
        <5>1. Portion <= op.size /\ Portion \in Nat /\ op.size \in Nat
          <6>1. /\ written = m * Bytes /\ Portion \in 1..Bytes /\ written + Portion <= Size
                /\ file \in OpenFile /\ Bytes \in Nat /\ Control
            BY <2>2, Shape DEF Stores, Current, Bytes, IInv
          <6>2. Size \in Nat /\ Size <= op.size /\ op.size \in Nat
            BY <6>1, SizeIs DEF Control
          <6>3. written \in Nat
            BY <6>1
          <6> HIDE DEF Bytes
          <6> QED  BY <6>1, <6>2, <6>3
        <5> QED  BY <3>1, <5>1
      <4> HIDE DEF j
      <4> QED  BY <3>1, <4>1 DEF inbuf, j
    <3>4. DiskOf(made)[s][b] = DataCell(made, cluster, k * SectorSize + b)
      <4>1. s = Partition.start_sector + FirstSector(made.bpb, cluster) + k
        BY <3>1, <3>2 DEF ClusterStart
      <4> QED  BY <3>2, <4>1, DataPlace
    <3>5. DiskOf(made)[s][b].kind = "byte"
      BY <3>2, <3>4 DEF DataCell, ByteAt
    <3> QED  BY <3>3, <3>5
  <2>5. ASSUME NEW s \in Sector, NEW b \in Cell
        PROVE  \/ disk'[s][b] = DiskOf(made)[s][b]
               \/ disk'[s][b].kind = "byte" /\ DiskOf(made)[s][b].kind = "byte"
    BY <2>4 DEF Sound
  <2>6. DiskOf(made)' = DiskOf(made)
    BY <1>1
  <2> QED  BY <2>3, <2>5, <2>6 DEF Sound
<1> QED  BY <1>1, <1>2, <1>3

LEMMA NextCell ==
  ASSUME Sound, made \in Volumes, NEW s \in Sector, NEW b \in Cell, disk[s][b].kind = "next"
  PROVE  disk[s][b].cluster \in Nat
<1> DEFINE v == made
           x == DiskOf(v)[s][b]
           r == s - Partition.start_sector
           f == r - v.bpb.reserved_sectors
           d == r - FirstDataSector(v.bpb)
           n == v.bpb.sectors_per_cluster
           c == (f % FatSize(v.bpb)) * SectorSize + b
           a == 2 + d \div n
           j == (d % n) * SectorSize + b
<1>1. disk[s][b] = x
  BY DEF Sound
<1>2. x = IF r = 0 THEN [kind |-> "boot", bpb |-> v.bpb]
          ELSE IF f >= 0 /\ d < 0 THEN FatCell(v, c)
          ELSE IF d >= 0 /\ a \in 2..Clusters + 1 THEN DataCell(v, a, j)
          ELSE ByteAt(0, s)
  BY DEF DiskOf
<1>3. j \in Nat \/ ~(d >= 0)
  <2>1. n \in Nat /\ n > 0 /\ FirstDataSector(v.bpb) \in Nat
    BY Shape
  <2>2. s \in Int /\ Partition.start_sector \in Int /\ b \in Nat
    BY Constants DEF Sector, Cell
  <2>3. d \in Int
    BY <2>1, <2>2
  <2> HIDE DEF d, n
  <2>4. d >= 0 => d % n \in Nat
    BY <2>1, <2>3, Division
  <2>5. \A q \in Nat, p \in Nat : q * p \in Nat
    OBVIOUS
  <2> QED  BY <2>2, <2>4, <2>5, Constants
<1>4. \A y, l : l \in Nat => DataCell(v, y, l).kind # "next"
  <2> SUFFICES ASSUME NEW y, NEW l \in Nat PROVE DataCell(v, y, l).kind # "next"
    OBVIOUS
  <2>1. CASE y \in DOMAIN v.entries /\ l < Len(v.entries[y])
    <3>1. v.entries[y] \in Seq(fat_file \cup fat_long_filename \cup {[kind |-> "deleted"]})
      BY <2>1, VolumesAssumption
    <3>2. v.entries[y][l + 1] \in fat_file \cup fat_long_filename \cup {[kind |-> "deleted"]}
      <4>1. l + 1 \in DOMAIN v.entries[y]
        BY <2>1, <3>1
      <4> HIDE DEF v
      <4> QED  BY <3>1, <4>1
    <3>3. DataCell(v, y, l) = v.entries[y][l + 1]
      BY <2>1 DEF DataCell
    <3> QED  BY <3>2, <3>3 DEF fat_file, fat_long_filename
  <2>2. CASE ~(y \in DOMAIN v.entries /\ l < Len(v.entries[y]))
    BY <2>2 DEF DataCell, ByteAt, END
  <2> QED  BY <2>1, <2>2
<1>5. FatCell(v, c).cluster \in Nat
  BY Shape DEF FatCell
<1> HIDE DEF v, x, r, f, d, n, c, a, j
<1>6. x = FatCell(v, c)
  BY <1>1, <1>2, <1>3, <1>4 DEF ByteAt
<1> QED  BY <1>1, <1>5, <1>6


\* What a completed read has brought is on the disk.
LEMMA ReadData ==
  ASSUME NEW start \in Nat, NEW count \in Nat, Reads(start, count), call = NoCall, answer.ok,
         NEW k \in 0..count - 1
  PROVE  start + k \in Sector /\ answer.data[k] = disk[start + k]
<1>1. /\ start..start + count - 1 \subseteq Sector
      /\ answer.data = [l \in 0..count - 1 |-> disk[start + l]]
  BY DEF Reads, NoCall
<1>2. start + k \in start..start + count - 1
  OBVIOUS
<1> QED  BY <1>1, <1>2

LEMMA FatSectorIs ==
  ASSUME NEW v \in Volumes, NEW c \in Nat
  PROVE  FatSector(v.bpb, c) \in Nat /\ Partition.start_sector + FatSector(v.bpb, c) \in Nat
         /\ c % SectorSize \in Cell
<1>1. v.bpb.reserved_sectors \in Nat
  BY Shape
<1>2. c \div SectorSize \in Nat /\ c % SectorSize \in 0..SectorSize - 1
  BY Constants, Division
<1> QED  BY <1>1, <1>2, Constants DEF FatSector, Cell

LEMMA FirstClusters ==
  ASSUME Control, FileOpen, file # NULL
  PROVE  file.record.first_cluster \in Nat
<1>1. file.record.first_cluster \in 0..Clusters + 1
  BY DEF FileOpen, OpenFile, fat_file
<1> QED  BY <1>1, Constants

LEMMA LocatedStep ==
  ASSUME IInv, ~Damaged, Next
  PROVE  Located'
<1>1. Control /\ FileOpen /\ Sound /\ Located /\ Asked
  BY DEF IInv
<1>2. /\ UNCHANGED made /\ made \in Volumes /\ cluster \in Nat
      /\ pc \notin {"unmounted", "mounting"} => volume = made.bpb
  BY <1>1, DiskStays DEF Control, Located
<1>3. \A v \in Volumes : v.bpb.extended.root_cluster \in Nat
  <2>1. \A v \in Volumes : v.bpb.extended.root_cluster \in 2..Clusters + 1
    BY Shape
  <2> QED  BY <2>1, Constants
<1> USE DEF Located
<1>4. CASE Mount
  BY <1>1, <1>4 DEF Mount, Asks, callVars
<1>5. CASE MountReturns
  <2>1. pc = "mounting" /\ call = NoCall /\ UNCHANGED cluster
    BY <1>5 DEF MountReturns, Answered, callVars
  <2>2. CASE ~answer.ok
    BY <1>2, <1>5, <2>1, <2>2 DEF MountReturns
  <2>3. CASE answer.ok
    <3>1. Reads(Partition.start_sector, 1)
      BY <1>1, <2>1 DEF Asked
    <3>2. Partition.start_sector + 0 \in Sector
          /\ answer.data[0] = disk[Partition.start_sector + 0]
      BY <2>1, <2>3, <3>1, ReadData, Constants
    <3>3. Partition.start_sector \in Sector /\ answer.data[0][0] = disk[Partition.start_sector][0]
      BY <3>2, Constants
    <3>4. 0 \in Cell /\ DiskOf(made)[Partition.start_sector][0] = [kind |-> "boot", bpb |-> made.bpb]
      BY <1>2, <3>3, BootPlace
    <3>5. disk[Partition.start_sector][0] = [kind |-> "boot", bpb |-> made.bpb]
      BY <1>1, <3>3, <3>4 DEF Sound
    <3>6. volume' = made.bpb
      BY <1>5, <2>3, <3>3, <3>5 DEF MountReturns
    <3> QED  BY <1>2, <2>1, <3>6
  <2> QED  BY <2>2, <2>3
<1>6. CASE Unmount
  BY <1>2, <1>6 DEF Unmount
<1>7. CASE \E p \in Paths : Open(p)
  BY <1>2, <1>3, <1>7 DEF Open, Begins
<1>8. CASE OpenRoot \/ SearchEnds \/ ListEnds \/ ReadEnds \/ WriteEnds
  BY <1>2, <1>8 DEF OpenRoot, SearchEnds, OpenFails, ListEnds, ReadEnds, WriteEnds, Returns
<1>9. CASE SearchCluster \/ ListCluster
  BY <1>2, <1>9 DEF SearchCluster, ListCluster, EnterCluster, ReadClusterThen, Asks
<1>10. CASE Search
  <2>1. op.kind = "open" /\ pc = "entries" /\ call = NoCall
    BY <1>10 DEF Search, Answered
  <2>2. CASE ~answer.ok
    BY <1>2, <1>10, <2>1, <2>2 DEF Search, OpenFails, Returns
  <2>3. CASE answer.ok
    <3>1. PICK x \in EntriesAt(answer.data) :
             IF x.kind = "file" /\ Matches(x) THEN Found(x)
             ELSE /\ IF x = END THEN EntriesEnd ELSE SkipEntry(x) /\ UNCHANGED <<written, got>>
                  /\ UNCHANGED <<deviceVars, made, volume, op>>
      BY <1>10, <2>3 DEF Search
    <3>2. CASE x.kind = "file" /\ Matches(x)
      <4>1. Found(x)
        BY <3>1, <3>2
      <4>2. Entry(made, x)
        <5>1. Reads(ClusterStart, volume.sectors_per_cluster) /\ e \in Nat /\ volume = made.bpb
          BY <1>1, <2>1 DEF Asked, Control
        <5> QED  BY <1>1, <1>2, <2>1, <2>3, <3>2, <5>1, EntryFound
      <4>3. x.first_cluster \in Nat
        <5>1. x.first_cluster \in 0..Clusters + 1
          BY <4>2 DEF Entry, fat_file
        <5> QED  BY <5>1, Constants
      <4> QED  BY <1>2, <2>1, <4>1, <4>3 DEF Found, Returns
    <3>3. CASE ~(x.kind = "file" /\ Matches(x))
      BY <1>2, <2>1, <3>1, <3>3 DEF EntriesEnd, SkipEntry
    <3> QED  BY <3>2, <3>3
  <2> QED  BY <2>2, <2>3
<1>11. CASE Close
  BY <1>2, <1>11 DEF Close
<1>12. CASE \/ \E n \in Sizes : ReadDir(n)
            \/ \E n \in Sizes : ReadFile(n)
            \/ \E n \in Sizes : WriteFile(n)
  BY <1>1, <1>2, <1>12, FirstClusters DEF ReadDir, ReadFile, WriteFile, Begins
<1>13. CASE \E n \in Sizes : WriteDirectory(n)
  BY <1>2, <1>13 DEF WriteDirectory
<1>14. CASE List
  BY <1>2, <1>14 DEF List, Answered, Returns, EntriesEnd, SkipEntry, ListFile
<1>15. CASE ReadCluster
  BY <1>2, <1>15 DEF ReadCluster, ReadClusterThen, Asks, callVars
<1>16. CASE CopyCluster
  BY <1>2, <1>16 DEF CopyCluster, Answered, Returns
<1>17. CASE WriteCluster
  <2>1. pc = "write"
    BY <1>17 DEF WriteCluster
  <2>2. CASE Returns(0)
    BY <1>2, <2>1, <2>2 DEF Returns
  <2>3. CASE ReadClusterThen("patch") /\ UNCHANGED callVars
    BY <1>2, <2>1, <2>3 DEF ReadClusterThen, Asks, callVars
  <2> QED
    <3> HIDE DEF Located
    <3> QED  BY <1>17, <2>2, <2>3 DEF WriteCluster
<1>18. CASE PatchCluster \/ Stored
  BY <1>2, <1>18 DEF PatchCluster, Stored, Answered, Returns, callVars
<1>19. CASE NextCluster
  BY <1>2, <1>19 DEF NextCluster, Asks, callVars
<1>20. CASE ChainRead
  <2>1. pc = "chain" /\ call = NoCall /\ UNCHANGED volume
    BY <1>20 DEF ChainRead, Answered
  <2>2. volume = made.bpb
    BY <1>1, <2>1
  <2>3. CASE ~answer.ok
    <3>1. cluster' \in AnyCluster
      BY <1>20, <2>3 DEF ChainRead
    <3> QED  BY <1>2, <2>1, <2>2, <3>1, Constants DEF AnyCluster
  <2>4. CASE answer.ok
    <3> DEFINE start == Partition.start_sector + FatSector(volume, cluster)
               b == cluster % SectorSize
    <3>1. start \in Nat /\ b \in Cell
      BY <1>2, <2>2, FatSectorIs
    <3>2. Reads(start, 1)
      BY <1>1, <2>1 DEF Asked
    <3>3. start + 0 \in Sector /\ answer.data[0] = disk[start + 0]
      <4> HIDE DEF start
      <4> QED  BY <2>1, <2>4, <3>1, <3>2, ReadData
    <3>4. cluster' \in NextOf(answer.data[0][b])
      BY <1>20, <2>4 DEF ChainRead
    <3> HIDE DEF start, b
    <3>5. start \in Sector /\ answer.data[0] = disk[start]
      BY <3>1, <3>3
    <3>6. cluster' \in Nat
      <4>1. CASE disk[start][b].kind = "next"
        <5>1. disk[start][b].cluster \in Nat
          BY <1>1, <1>2, <3>1, <3>5, <4>1, NextCell
        <5> QED  BY <3>4, <3>5, <4>1, <5>1 DEF NextOf
      <4>2. CASE disk[start][b].kind # "next"
        <5>1. cluster' \in AnyCluster
          BY <3>4, <3>5, <4>2 DEF NextOf
        <5> QED  BY <5>1, Constants DEF AnyCluster
      <4> QED  BY <4>1, <4>2
    <3> QED  BY <1>2, <2>1, <2>2, <3>6
  <2> QED  BY <2>3, <2>4
<1>21. CASE Other
  BY <1>2, <1>21 DEF Other, callVars
<1> QED
  <2> HIDE DEF Located
  <2> QED
    BY <1>4, <1>5, <1>6, <1>7, <1>8, <1>9, <1>10, <1>11, <1>12, <1>13, <1>14, <1>15, <1>16, <1>17,
       <1>18, <1>19, <1>20, <1>21, Steps


\* A call of the disk goes on, and ends.
LEMMA ReadGoesOn ==
  ASSUME NEW start, NEW count, Reads(start, count), Device, call # NoCall
  PROVE  \/ call' = [kind |-> "read", start |-> start, count |-> count, content |-> <<>>]
         \/ /\ call' = NoCall
            /\ answer'.ok => /\ start..start + count - 1 \subseteq Sector
                             /\ answer'.data = [k \in 0..count - 1 |-> disk'[start + k]]
<1>1. call = [kind |-> "read", start |-> start, count |-> count, content |-> <<>>]
  BY DEF Reads
<1>2. CASE GiveUp
  BY <1>2 DEF GiveUp, NoAnswer
<1>3. CASE Succeed
  BY <1>1, <1>3 DEF Succeed
<1> QED  BY <1>1, <1>2, <1>3 DEF Device, WriteSector

LEMMA WriteGoesOn ==
  ASSUME Writes, Device, call # NoCall, Other, DOMAIN disk = Sector,
         ClusterStart \in Nat, volume.sectors_per_cluster \in Nat
  PROVE  Writes'
<1> DEFINE n == volume.sectors_per_cluster
           j(s, b) == s * SectorSize + b
<1>1. /\ call.kind = "write" /\ call.start = ClusterStart /\ call.count = n
      /\ \A s \in InCluster : ClusterStart + s \in Sector
      /\ \A s \in InCluster : \A b \in Cell :
            call.content[s][b] = IF j(s, b) < Portion THEN inbuf[j(s, b)] ELSE disk[ClusterStart + s][b]
  BY DEF Writes
<1>2. /\ ClusterStart' = ClusterStart /\ InCluster' = InCluster /\ Portion' = Portion
      /\ inbuf' = inbuf /\ volume' = volume
  BY DEF Other, callVars, ClusterStart, InCluster, Portion, Size, inbuf, PerCluster, FirstSector
<1>3. InCluster = 0..n - 1 /\ n \in Nat
  BY DEF InCluster
<1> HIDE DEF n, j
<1>4. CASE WriteSector
  <2>1. PICK k \in InCluster : disk' = [disk EXCEPT ![ClusterStart + k] = call.content[k]]
    BY <1>1, <1>3, <1>4 DEF WriteSector
  <2>2. call' = call
    BY <1>4 DEF WriteSector
  <2>3. ASSUME NEW s \in InCluster, NEW b \in Cell
        PROVE  call.content[s][b] = IF j(s, b) < Portion THEN inbuf[j(s, b)]
                                    ELSE disk'[ClusterStart + s][b]
    <3>1. CASE s = k
      <4>1. disk'[ClusterStart + s] = call.content[s]
        BY <1>1, <2>1, <3>1
      <4> QED  BY <1>1, <4>1
    <3>2. CASE s # k
      <4>1. disk'[ClusterStart + s] = disk[ClusterStart + s]
        BY <1>1, <1>3, <2>1, <3>2
      <4> QED  BY <1>1, <4>1
    <3> QED  BY <3>1, <3>2
  <2> QED  BY <1>1, <1>2, <2>2, <2>3 DEF Writes, n, j
<1>5. CASE Succeed
  <2>1. call' = NoCall /\ disk' = disk
    BY <1>5 DEF Succeed
  <2>2. \A s \in InCluster : disk[ClusterStart + s] = call.content[s]
    BY <1>1, <1>3, <1>5 DEF Succeed
  <2>3. \A s \in InCluster : \A b \in Cell :
           j(s, b) < Portion => disk[ClusterStart + s][b] = inbuf[j(s, b)]
    BY <1>1, <2>2
  <2> QED  BY <1>1, <1>2, <2>1, <2>3 DEF Writes, j
<1>6. CASE GiveUp
  BY <1>6 DEF GiveUp, NoAnswer, Writes
<1> QED  BY <1>4, <1>5, <1>6 DEF Device

LEMMA WriteBegins ==
  ASSUME IInv, ~Damaged, PatchCluster, answer.ok
  PROVE  Writes'
<1> DEFINE n == volume.sectors_per_cluster
           j(s, b) == s * SectorSize + b
           data == answer.data
           start == ClusterStart
<1>1. Control /\ Located /\ Asked /\ Sound
  BY DEF IInv
<1>2. pc = "patch" /\ call = NoCall /\ op.kind = "write"
  BY <1>1 DEF PatchCluster, Answered, Control
<1>3. volume = made.bpb /\ made \in Volumes /\ cluster \in Nat /\ failures = {}
  BY <1>1, <1>2 DEF Located, Control, Damaged
<1>4. Reads(start, n) /\ start \in Nat /\ n \in Nat
  <2>1. n \in Nat
    BY <1>3, Shape
  <2> QED  BY <1>1, <1>2, <1>3, <2>1, ClusterStartIs DEF Asked
<1>5. /\ start..start + n - 1 \subseteq Sector
      /\ data = [k \in 0..n - 1 |-> disk[start + k]]
  BY <1>2, <1>4 DEF Reads, NoCall
<1>6. Portion \in Nat
  <2>1. \E m \in 0..Clusters - 1 : Current(m)
    BY <1>2, <1>3, Transferred
  <2>2. Bytes \in Nat
    BY <1>3, Shape DEF Bytes
  <2> QED  BY <2>1, <2>2 DEF Current
<1>7. /\ call' = [kind |-> "write", start |-> Partition.start_sector + FirstSector(volume, cluster),
                  count |-> n, content |-> Patched(data, 0, inbuf, Portion)]
      /\ UNCHANGED <<disk, volume, op, callVars, file>>
  BY DEF PatchCluster, gpt_write_back, BeginWrite
<1>8. /\ ClusterStart' = ClusterStart /\ InCluster' = InCluster /\ Portion' = Portion
      /\ inbuf' = inbuf
  BY <1>7 DEF callVars, ClusterStart, InCluster, Portion, Size, inbuf, PerCluster, FirstSector
<1>9. InCluster = 0..n - 1
  BY DEF InCluster
<1>10. \A s \in InCluster : start + s \in Sector /\ data[s] = disk[start + s]
  <2> HIDE DEF n, data, start
  <2> QED  BY <1>4, <1>5, <1>9
<1>11. ASSUME NEW s \in InCluster, NEW b \in Cell
       PROVE  call'.content[s][b] = IF j(s, b) < Portion THEN inbuf[j(s, b)] ELSE disk[start + s][b]
  <2>1. DOMAIN data = InCluster
    BY <1>5, <1>9
  <2>2. call'.content[s][b] = IF s * SectorSize + b - 0 \in 0..Portion - 1
                              THEN inbuf[s * SectorSize + b - 0] ELSE data[s][b]
    <3> DEFINE buffer == inbuf
               size == Portion
               cell(r, c) == IF r * SectorSize + c - 0 \in 0..size - 1
                             THEN buffer[r * SectorSize + c - 0] ELSE data[r][c]
               P == [r \in DOMAIN data |-> [c \in Cell |-> cell(r, c)]]
    <3>1. call'.content = P
      <4>1. call'.content = Patched(data, 0, inbuf, Portion)
        BY <1>7
      <4>2. Patched(data, 0, inbuf, Portion) = P
        BY DEF Patched
      <4> QED  BY <4>1, <4>2
    <3> HIDE DEF data, cell
    <3>2. P[s][b] = cell(s, b)
      BY <2>1
    <3> QED  BY <3>1, <3>2 DEF cell
  <2>3. j(s, b) \in Nat
    <3>1. \A p \in Nat, q \in Nat : p * q \in Nat
      OBVIOUS
    <3>2. s \in Nat /\ b \in Nat
      BY <1>4, <1>9, Constants DEF Cell
    <3> QED  BY <3>1, <3>2, Constants
  <2>4. s * SectorSize + b - 0 = j(s, b)
    <3>1. b \in Nat
      BY Constants DEF Cell
    <3>2. b - 0 = b
      BY <3>1
    <3> QED  BY <3>2
  <2> HIDE DEF j
  <2>5. j(s, b) \in 0..Portion - 1 <=> j(s, b) < Portion
    BY <1>6, <2>3
  <2> QED  BY <1>10, <2>2, <2>4, <2>5
<1> HIDE DEF n, j, data, start
<1>12. call'.kind = "write" /\ call'.start = ClusterStart /\ call'.count = n
  BY <1>7 DEF ClusterStart
<1> QED  BY <1>7, <1>8, <1>10, <1>11, <1>12 DEF Writes, n, j, start


LEMMA AskedStep ==
  ASSUME IInv, ~Damaged, Next
  PROVE  Asked'
<1>1. Control /\ FileOpen /\ Sound /\ Located /\ Asked
  BY DEF IInv
<1> DEFINE Calm == pc' \notin Waiting
<1>2. ASSUME Calm PROVE Asked'
  BY <1>2 DEF Waiting, Asked
<1>3. CASE Mount
  <2>1. /\ pc' = "mounting"
        /\ call' = [kind |-> "read", start |-> Partition.start_sector + 0, count |-> 1,
                    content |-> <<>>]
    BY <1>3 DEF Mount, Asks, gpt_read_partition, BeginRead
  <2>2. Partition.start_sector + 0 = Partition.start_sector
    BY Constants
  <2> QED  BY <2>1, <2>2 DEF Asked, Reads
<1>4. CASE SearchCluster \/ ListCluster \/ ReadCluster \/ (ReadClusterThen("patch") /\ UNCHANGED callVars)
  <2>1. /\ pc' \in {"entries", "copy", "patch"} /\ UNCHANGED <<volume, cluster>>
        /\ call' = [kind |-> "read", start |-> Partition.start_sector + FirstSector(volume, cluster),
                    count |-> volume.sectors_per_cluster, content |-> <<>>]
    BY <1>4 DEF SearchCluster, ListCluster, ReadCluster, EnterCluster, ReadClusterThen, Asks,
                callVars, gpt_read_partition, BeginRead
  <2>2. ClusterStart' = Partition.start_sector + FirstSector(volume, cluster)
    BY <2>1 DEF ClusterStart, FirstSector
  <2> QED  BY <2>1, <2>2 DEF Asked, Reads
<1>5. CASE NextCluster
  <2>1. /\ pc' = "chain" /\ UNCHANGED <<volume, cluster>>
        /\ call' = [kind |-> "read", start |-> Partition.start_sector + FatSector(volume, cluster),
                    count |-> 1, content |-> <<>>]
    BY <1>5 DEF NextCluster, Asks, callVars, gpt_read_partition, BeginRead
  <2> QED  BY <2>1 DEF Asked, Reads
<1>6. CASE Search \/ List
  <2>1. pc = "entries" /\ (Calm \/ (pc' = pc /\ UNCHANGED <<deviceVars, volume, cluster>>))
    BY <1>6
       DEF Search, List, Answered, OpenFails, Returns, Found, EntriesEnd, SkipEntry, ListFile, Waiting
  <2>2. CASE pc' = pc /\ UNCHANGED <<deviceVars, volume, cluster>>
    <3>1. Reads(ClusterStart, volume.sectors_per_cluster)
      BY <1>1, <2>1 DEF Asked
    <3>2. ClusterStart' = ClusterStart
      BY <2>2 DEF ClusterStart, FirstSector
    <3> QED  BY <2>1, <2>2, <3>1, <3>2 DEF Asked, Reads, deviceVars
  <2> QED  BY <1>2, <2>1, <2>2
<1>7. CASE PatchCluster
  <2>1. CASE answer.ok
    <3>1. Writes' /\ pc' = "stored"
      BY <1>7, <2>1, WriteBegins DEF PatchCluster
    <3> QED  BY <3>1 DEF Asked
  <2>2. CASE ~answer.ok
    BY <1>2, <1>7, <2>2 DEF PatchCluster, Returns, Waiting
  <2> QED  BY <2>1, <2>2
<1>8. CASE Device /\ call # NoCall /\ Other
  <2>1. UNCHANGED <<pc, volume, cluster>>
    BY <1>8 DEF Other, callVars
  <2>2. CASE pc = "mounting"
    <3>1. Reads(Partition.start_sector, 1)
      BY <1>1, <2>2 DEF Asked
    <3> QED  BY <1>8, <2>1, <2>2, <3>1, ReadGoesOn DEF Asked, Reads
  <2>3. CASE pc = "chain"
    <3>1. Reads(Partition.start_sector + FatSector(volume, cluster), 1)
      BY <1>1, <2>3 DEF Asked
    <3> QED  BY <1>8, <2>1, <2>3, <3>1, ReadGoesOn DEF Asked, Reads
  <2>4. CASE pc \in {"entries", "copy", "patch"}
    <3>1. Reads(ClusterStart, volume.sectors_per_cluster)
      BY <1>1, <2>4 DEF Asked
    <3>2. ClusterStart' = ClusterStart
      BY <2>1 DEF ClusterStart, FirstSector
    <3> QED  BY <1>8, <2>1, <2>4, <3>1, <3>2, ReadGoesOn DEF Asked, Reads
  <2>5. CASE pc = "stored"
    <3>1. made \in Volumes /\ volume = made.bpb /\ cluster \in Nat /\ DOMAIN disk = Sector
      BY <1>1, <2>5 DEF Control, Located, Sound
    <3>2. ClusterStart \in Nat /\ volume.sectors_per_cluster \in Nat
      BY <3>1, ClusterStartIs, Shape
    <3>3. Writes
      BY <1>1, <2>5 DEF Asked
    <3>4. Writes'
      BY <1>8, <3>1, <3>2, <3>3, WriteGoesOn
    <3> QED  BY <2>1, <2>5, <3>4 DEF Asked
  <2>6. CASE pc \notin Waiting
    BY <1>2, <2>1, <2>6
  <2> QED  BY <2>2, <2>3, <2>4, <2>5, <2>6 DEF Waiting
<1>9. CASE MountReturns \/ Unmount \/ Close
  <2>1. Calm
    BY <1>9 DEF MountReturns, Unmount, Close, Waiting
  <2> QED  BY <1>2, <2>1
<1>10. CASE \/ \E p \in Paths : Open(p)
            \/ \E n \in Sizes : ReadDir(n)
            \/ \E n \in Sizes : ReadFile(n)
            \/ \E n \in Sizes : WriteFile(n)
            \/ \E n \in Sizes : WriteDirectory(n)
  <2>1. Calm
    BY <1>10 DEF Open, ReadDir, ReadFile, WriteFile, WriteDirectory, Waiting
  <2> QED  BY <1>2, <2>1
<1>11. CASE OpenRoot \/ SearchEnds \/ ListEnds \/ ReadEnds \/ WriteEnds
  <2>1. Calm
    BY <1>11 DEF OpenRoot, SearchEnds, OpenFails, ListEnds, ReadEnds, WriteEnds, Returns, Waiting
  <2> QED  BY <1>2, <2>1
<1>12. CASE CopyCluster \/ Stored \/ ChainRead
  <2>1. Calm
    <3>1. pc = "chain" => op.kind \notin Waiting
      BY <1>1 DEF Control, Waiting
    <3> QED  BY <1>12, <3>1 DEF CopyCluster, Stored, ChainRead, Answered, Returns, Waiting
  <2> QED  BY <1>2, <2>1
<1>13. CASE WriteCluster
  <2>1. ASSUME Returns(0) PROVE Calm
    BY <2>1 DEF Returns, Waiting
  <2> HIDE DEF Calm
  <2> QED  BY <1>2, <1>4, <1>13, <2>1 DEF WriteCluster
<1> QED
  BY <1>3, <1>4, <1>5, <1>6, <1>7, <1>8, <1>9, <1>10, <1>11, <1>12, <1>13, Steps


LEMMA FailuresGrow ==
  ASSUME Next, pc \notin {"idle", "unmounted", "mounting"}
  PROVE  failures \subseteq failures'
<1> USE DEF Asks, ReadClusterThen, EnterCluster, Returns, Answered
<1>1. ~Mount /\ ~MountReturns /\ ~Unmount /\ ~Close
  BY DEF Mount, MountReturns, Unmount, Close
<1>2. /\ \A p \in Paths : ~Open(p)
      /\ \A n \in Sizes : ~ReadDir(n) /\ ~ReadFile(n) /\ ~WriteFile(n) /\ ~WriteDirectory(n)
  BY DEF Open, ReadDir, ReadFile, WriteFile, WriteDirectory, Begins
<1>3. ASSUME OpenRoot \/ SearchCluster \/ Search \/ SearchEnds PROVE failures \subseteq failures'
  BY <1>3 DEF OpenRoot, SearchCluster, Search, SearchEnds
<1>4. ASSUME ListCluster \/ List \/ ListEnds PROVE failures \subseteq failures'
  BY <1>4 DEF ListCluster, List, ListEnds
<1>5. ASSUME ReadCluster \/ CopyCluster \/ ReadEnds \/ NextCluster \/ ChainRead PROVE failures \subseteq failures'
  BY <1>5 DEF ReadCluster, CopyCluster, ReadEnds, NextCluster, ChainRead
<1>6. ASSUME PatchCluster \/ Stored \/ WriteEnds PROVE failures \subseteq failures'
  BY <1>6 DEF PatchCluster, Stored, WriteEnds
<1>7. ASSUME Other PROVE failures \subseteq failures'
  BY <1>7 DEF Other
<1>8. ASSUME ReadClusterThen("patch") PROVE failures \subseteq failures'
  BY <1>8
<1>9. ASSUME WriteCluster PROVE failures \subseteq failures'
  <2> HIDE DEF Asks, ReadClusterThen, EnterCluster, Returns, Answered
  <2>1. UNCHANGED failures \/ ReadClusterThen("patch")
    BY <1>9 DEF WriteCluster
  <2> QED  BY <1>8, <2>1
<1> QED
  <2> HIDE DEF Asks, ReadClusterThen, EnterCluster, Returns, Answered
  <2> QED  BY <1>1, <1>2, <1>3, <1>4, <1>5, <1>6, <1>7, <1>9, Steps

\* A read or a write begins, or goes on.
LEMMA GoesOn ==
  ASSUME IInv, Next, op'.kind \in {"read", "write"}, pc' \notin {"idle", "unmounted", "mounting"}
  PROVE  \/ \E n \in Sizes : ReadFile(n) \/ WriteFile(n)
         \/ /\ UNCHANGED <<op, file, made>> /\ failures \subseteq failures'
            /\ pc \notin {"idle", "unmounted", "mounting"}
<1>1. CASE pc \notin {"idle", "unmounted", "mounting"}
  <2>1. UNCHANGED <<op, made>> /\ failures \subseteq failures'
    BY <1>1, OpStays, DiskStays, FailuresGrow
  <2>2. UNCHANGED file
    <3>1. CASE file # NULL /\ file' = [file EXCEPT !.record.size = Size] /\ pc' = "idle"
      BY <3>1
    <3> QED  BY <3>1, FileChange
  <2> QED  BY <1>1, <2>1, <2>2
<1>2. CASE pc \in {"idle", "unmounted", "mounting"}
  <2> USE DEF Asks, ReadClusterThen, EnterCluster, Answered
  <2>1. CASE \E p \in Paths : Open(p)
    BY <2>1 DEF Open, Begins
  <2>2. CASE \E n \in Sizes : ReadDir(n)
    BY <2>2 DEF ReadDir, Begins
  <2>3. CASE \E n \in Sizes : WriteDirectory(n)
    BY <2>3 DEF WriteDirectory
  <2>4. CASE Mount \/ MountReturns \/ Unmount \/ Close
    BY <2>4 DEF Mount, MountReturns, Unmount, Close
  <2>5. CASE Device /\ call # NoCall /\ Other
    BY <1>2, <2>5 DEF Other
  <2>6. ~OpenRoot /\ ~SearchCluster /\ ~Search /\ ~SearchEnds /\ ~ListCluster /\ ~List /\ ~ListEnds
    BY <1>2 DEF OpenRoot, SearchCluster, Search, SearchEnds, ListCluster, List, ListEnds
  <2>7. ~ReadCluster /\ ~CopyCluster /\ ~ReadEnds /\ ~WriteCluster /\ ~PatchCluster /\ ~Stored
        /\ ~WriteEnds /\ ~NextCluster /\ ~ChainRead
    BY <1>2 DEF ReadCluster, CopyCluster, ReadEnds, WriteCluster, PatchCluster, Stored, WriteEnds,
                NextCluster, ChainRead
  <2> QED  BY <2>1, <2>2, <2>3, <2>4, <2>5, <2>6, <2>7, Steps
<1> QED  BY <1>1, <1>2

\* What holds of a transfer between two accesses to its clusters.
LEMMA Kept ==
  ASSUME UNCHANGED <<op, file, made, cluster, written>>
  PROVE  /\ Size' = Size /\ Bytes' = Bytes
         /\ \A m : (Before(m) => Before(m)') /\ (After(m) => After(m)')
         /\ Transferring => Transferring'
<1>1. Size' = Size /\ Bytes' = Bytes
  BY DEF Size, Bytes, PerCluster
<1>2. \A m : Nth(m)' = Nth(m)
  BY DEF Nth, Follow
<1>3. \A m : Before(m) => Before(m)'
  BY <1>1, <1>2 DEF Before
<1>4. \A m : After(m) => After(m)'
  BY <1>1, <1>2 DEF After
<1> QED  BY <1>1, <1>3, <1>4 DEF Transferring

LEMMA PlaceKept ==
  ASSUME UNCHANGED <<file, made>>, NEW k
  PROVE  Place(k)' = Place(k)
BY DEF Place, Follow, PerCluster, FirstSector, FirstDataSector, FatSize

LEMMA MovedKept ==
  ASSUME Moved, UNCHANGED <<op, file, made, written, got, disk>>
  PROVE  Moved'
<1>1. \A k : AtPlace(k)' = AtPlace(k) /\ Place(k)' = Place(k)
  BY PlaceKept DEF AtPlace
<1>2. OnDisk' = OnDisk
  BY DEF OnDisk
<1>3. inbuf' = inbuf /\ Bytes' = Bytes
  BY DEF inbuf, Bytes, PerCluster
<1> QED  BY <1>1, <1>2, <1>3 DEF Moved

\* What a read brings of a cluster are the bytes of the file that follow those it has.
LEMMA CopiedCell ==
  ASSUME made \in Volumes, volume = made.bpb, NEW m \in 0..Clusters - 1, Current(m),
         Reads(ClusterStart, volume.sectors_per_cluster), call = NoCall, answer.ok,
         NEW j \in 0..Portion - 1
  PROVE  /\ answer.data[j \div SectorSize][j % SectorSize] = AtPlace(m * Bytes + j)
         /\ answer.data[j \div SectorSize][j % SectorSize] \in OnDisk
<1> DEFINE n == volume.sectors_per_cluster
           q == j \div SectorSize
           r == j % SectorSize
<1>1. n \in Nat /\ Portion \in 1..Bytes /\ Bytes \in Nat /\ m \in Nat
  BY Shape, Constants DEF Current, Bytes
<1>2. j \in 0..Bytes - 1
  <2> HIDE DEF Bytes
  <2> QED  BY <1>1
<1>3. /\ Place(m * Bytes + j) = <<Partition.start_sector + (FirstSector(made.bpb, Nth(m)) + q), r>>
      /\ q \in 0..n - 1 /\ r \in Cell
  BY <1>1, <1>2, PlaceOf
<1>4. ClusterStart = Partition.start_sector + FirstSector(made.bpb, Nth(m))
      /\ FirstSector(made.bpb, Nth(m)) \in Nat /\ Partition.start_sector \in Nat
  BY FirstSectorIs, Constants DEF ClusterStart, Current
<1> HIDE DEF n, q, r
<1>5. ClusterStart \in Nat /\ ClusterStart + q = Partition.start_sector + (FirstSector(made.bpb, Nth(m)) + q)
  BY <1>1, <1>3, <1>4
<1>6. ClusterStart + q \in Sector /\ answer.data[q] = disk[ClusterStart + q]
  BY <1>1, <1>3, <1>5, ReadData DEF n
<1> DEFINE k == m * Bytes + j
<1>7. Place(k)[1] = ClusterStart + q /\ Place(k)[2] = r
  BY <1>3, <1>5
<1> HIDE DEF k
<1>8. answer.data[q][r] = AtPlace(k) /\ answer.data[q][r] \in OnDisk
  BY <1>3, <1>6, <1>7 DEF AtPlace, OnDisk
<1> QED  BY <1>8 DEF q, r, k


\* A read or a write begins with the first cluster and nothing moved.
LEMMA ProgressBegins ==
  ASSUME IInv, NEW n \in Sizes, ReadFile(n) \/ WriteFile(n)
  PROVE  Progress'
<1>1. Control /\ FileOpen
  BY DEF IInv
<1>2. /\ UNCHANGED <<file, made>> /\ cluster' = file.record.first_cluster /\ written' = 0
      /\ got' = <<>> /\ op'.size = n /\ pc' \in {"read", "write"} /\ file # NULL
  BY DEF ReadFile, WriteFile, Begins
<1>3. n \in Nat /\ file \in OpenFile /\ Bytes' \in Nat /\ 0 \in 0..Clusters
  <2>1. made' \in Volumes
    BY <1>1, <1>2 DEF Control
  <2>2. PerCluster(made'.bpb) \in Nat
    BY <2>1, Shape
  <2> QED  BY <1>1, <1>2, <2>2, FatAssumption, Constants DEF FileOpen, Bytes
<1>4. written' \in 0..Size'
  <2>1. file.size \in Nat
    BY <1>3 DEF OpenFile
  <2>2. Size' \in Nat
    BY <1>2, <1>3, <2>1 DEF Size
  <2> QED  BY <1>2, <2>2
<1>5. Before(0)'
  <2>1. Nth(0)' = file.record.first_cluster
    BY <1>2, FollowIs DEF Nth
  <2>2. 0 * Bytes' = 0
    <3>1. \A b \in Nat : 0 * b = 0
      OBVIOUS
    <3> QED  BY <1>3, <3>1
  <2> QED  BY <1>2, <2>1, <2>2 DEF Before
<1>6. Moved'
  <2>1. <<>> \in Seq(OnDisk') /\ Len(<<>>) = 0
    OBVIOUS
  <2>2. got' \in Seq(OnDisk') /\ Len(got') = written'
    BY <1>2, <2>1
  <2> QED  BY <1>2, <2>2 DEF Moved
<1>7. \E m \in 0..Clusters : Before(m)'
  BY <1>3, <1>5
<1> QED  BY <1>2, <1>4, <1>6, <1>7 DEF Progress

LEMMA Concatenation ==
  ASSUME NEW S, NEW s \in Seq(S), NEW t \in Seq(S)
  PROVE  /\ s \o t \in Seq(S) /\ Len(s \o t) = Len(s) + Len(t)
         /\ \A k \in 1..Len(s) : (s \o t)[k] = s[k]
         /\ \A k \in 1..Len(t) : (s \o t)[Len(s) + k] = t[k]
OBVIOUS

LEMMA ReadMoves ==
  ASSUME IInv, ~Damaged, failures = {}, Progress, CopyCluster, answer.ok, UNCHANGED <<op, file, made>>
  PROVE  Moved'
<1>1. pc = "copy" /\ op.kind = "read" /\ call = NoCall /\ UNCHANGED disk
      /\ Reads(ClusterStart, volume.sectors_per_cluster)
      /\ volume = made.bpb /\ made \in Volumes
  BY DEF IInv, Control, Asked, Located, CopyCluster, Answered, deviceVars
<1>2. PICK m \in 0..Clusters - 1 : Current(m)
  BY <1>1, Transferred
<1> DEFINE piece == [k \in 1..Portion |-> answer.data[(k - 1) \div SectorSize][(k - 1) % SectorSize]]
<1>3. got' = got \o piece /\ written' = written + Portion
  BY DEF CopyCluster
<1>4. /\ got \in Seq(OnDisk) /\ Len(got) = written
      /\ \A k \in 1..written : got[k] = AtPlace(k - 1)
  BY <1>1 DEF Progress, Moved
<1>5. written \in Nat /\ Portion \in Nat /\ written = m * Bytes
  <2>1. written \in Nat
    BY <1>4
  <2>2. Bytes \in Nat /\ Portion \in 1..Bytes
    BY <1>1, <1>2, Shape DEF Bytes, Current
  <2>3. Portion \in Nat
    BY <2>2
  <2> QED  BY <1>2, <2>1, <2>3 DEF Current
<1>6. ASSUME NEW k \in 1..Portion
      PROVE  piece[k] = AtPlace(written + (k - 1)) /\ piece[k] \in OnDisk
  <2>1. k - 1 \in 0..Portion - 1
    BY <1>5
  <2> QED  BY <1>1, <1>2, <1>5, <2>1, CopiedCell
<1>7. piece \in Seq(OnDisk) /\ Len(piece) = Portion
  BY <1>5, <1>6
<1> HIDE DEF piece
<1>8. got' \in Seq(OnDisk) /\ Len(got') = written'
  BY <1>3, <1>4, <1>5, <1>7, Concatenation
<1>9. ASSUME NEW k \in 1..written' PROVE got'[k] = AtPlace(k - 1)
  <2>1. CASE k \in 1..written
    BY <1>3, <1>4, <1>7, <2>1, Concatenation
  <2>2. CASE k \notin 1..written
    <3>1. k - written \in 1..Portion /\ k \in Nat
      BY <1>3, <1>5, <2>2
    <3>2. got'[k] = piece[k - written]
      <4>1. got'[written + (k - written)] = piece[k - written]
        BY <1>3, <1>4, <1>7, <3>1, Concatenation
      <4>2. written + (k - written) = k
        BY <1>5, <3>1
      <4> QED  BY <4>1, <4>2
    <3>3. written + ((k - written) - 1) = k - 1
      BY <1>5, <3>1
    <3> QED  BY <1>6, <3>1, <3>2, <3>3
  <2> QED  BY <2>1, <2>2
<1>10. OnDisk' = OnDisk /\ \A k : AtPlace(k)' = AtPlace(k)
  BY <1>1, PlaceKept DEF OnDisk, AtPlace
<1> QED  BY <1>1, <1>8, <1>9, <1>10 DEF Moved

\* The first cluster is written once.
LEMMA WriteMoves ==
  ASSUME IInv, ~Damaged, failures = {}, Progress, Stored, answer.ok, UNCHANGED <<op, file, made>>
  PROVE  Moved'
<1>1. pc = "stored" /\ op.kind = "write" /\ call = NoCall /\ UNCHANGED disk
      /\ Writes /\ volume = made.bpb /\ made \in Volumes
  BY DEF IInv, Control, Asked, Located, Stored, Answered, deviceVars
<1>2. PICK m \in 0..Clusters - 1 : Current(m)
  BY <1>1, Transferred
<1>3. written' = written + Portion
  BY DEF Stored
<1>4. \A k \in 0..written - 1 : k < Bytes => Place(k)[1] \in Sector /\ AtPlace(k) = inbuf[k]
  BY <1>1 DEF Progress, Moved
<1>5. Bytes \in Nat /\ Bytes > 0 /\ m \in Nat /\ written = m * Bytes /\ Portion \in 1..Bytes
      /\ volume.sectors_per_cluster \in Nat
  BY <1>1, <1>2, Shape, Constants DEF Current, Bytes
<1>6. written \in Nat
  BY <1>5
<1>7. ASSUME NEW k \in 0..written' - 1, k < Bytes
      PROVE  Place(k)[1] \in Sector /\ AtPlace(k) = inbuf[k]
  <2>1. CASE k < written
    <3>1. k \in 0..written - 1
      BY <1>6, <2>1
    <3> QED  BY <1>4, <1>7, <3>1
  <2>2. CASE ~(k < written)
    <3>1. m = 0 /\ written = 0 /\ k \in 0..Portion - 1 /\ k \in 0..Bytes - 1
      <4>1. m = 0
        <5> SUFFICES ASSUME m # 0 PROVE FALSE
          OBVIOUS
        <5> HIDE DEF Bytes
        <5>1. m * Bytes >= Bytes
          BY <1>5
        <5> QED  BY <1>5, <1>6, <1>7, <2>2, <5>1
      <4>2. written = 0
        <5> HIDE DEF Bytes
        <5> QED  BY <1>5, <4>1
      <4> HIDE DEF Bytes
      <4> QED  BY <1>3, <1>5, <1>7, <4>1, <4>2
    <3> DEFINE q == k \div SectorSize
               r == k % SectorSize
    <3>2. /\ Place(0 * Bytes + k) = <<Partition.start_sector + (FirstSector(made.bpb, Nth(0)) + q), r>>
          /\ q \in 0..made.bpb.sectors_per_cluster - 1 /\ r \in Cell /\ k = q * SectorSize + r
      BY <1>1, <3>1, PlaceOf
    <3>3. ClusterStart = Partition.start_sector + FirstSector(made.bpb, Nth(0))
          /\ FirstSector(made.bpb, Nth(0)) \in Nat /\ Partition.start_sector \in Nat
      BY <1>1, <1>2, <3>1, FirstSectorIs, Constants DEF ClusterStart, Current
    <3>4. 0 * Bytes + k = k
      BY <1>5, <3>1
    <3> HIDE DEF q, r
    <3>5. q \in InCluster /\ q * SectorSize + r < Portion
      BY <1>1, <1>5, <3>1, <3>2 DEF InCluster
    <3>6. ClusterStart + q \in Sector /\ disk[ClusterStart + q][r] = inbuf[k]
      <4>1. answer.ok /\ ~(call.kind = "write")
        BY <1>1 DEF NoCall
      <4>2. ClusterStart + q \in Sector /\ disk[ClusterStart + q][r] = inbuf[q * SectorSize + r]
        BY <1>1, <3>2, <3>5, <4>1 DEF Writes
      <4> QED  BY <3>2, <4>2
    <3>7. ClusterStart + q = Partition.start_sector + (FirstSector(made.bpb, Nth(0)) + q)
      BY <1>5, <3>2, <3>3, <1>1
    <3> QED  BY <3>2, <3>4, <3>6, <3>7 DEF AtPlace
  <2> QED  BY <2>1, <2>2
<1>8. inbuf' = inbuf /\ Bytes' = Bytes /\ \A k : AtPlace(k)' = AtPlace(k) /\ Place(k)' = Place(k)
  BY <1>1, PlaceKept DEF inbuf, AtPlace, Bytes, PerCluster
<1> QED  BY <1>1, <1>7, <1>8 DEF Moved


\* A later cluster is another one.
LEMMA StoringMoves ==
  ASSUME IInv, ~Damaged, failures = {}, Progress, WriteSector, Other
  PROVE  Moved'
<1>1. call.kind = "write"
  BY DEF WriteSector
<1>2. PICK m \in 0..Clusters - 1 : Stores(m)
  BY <1>1, Storing
<1>3. /\ op.kind = "write" /\ made \in Volumes /\ pc = "stored" /\ Current(m)
      /\ file \in OpenFile /\ ~file.directory /\ volume = made.bpb
      /\ Control /\ Whole /\ DOMAIN disk = Sector
  BY <1>2 DEF Stores, IInv, Sound
<1>4. \A k \in 0..written - 1 : k < Bytes => Place(k)[1] \in Sector /\ AtPlace(k) = inbuf[k]
  BY <1>3 DEF Progress, Moved
<1>5. UNCHANGED <<op, file, made, written, volume>>
  BY DEF Other, callVars
<1>6. Bytes \in Nat /\ Bytes > 0 /\ m \in Nat /\ written = m * Bytes /\ Portion \in 1..Bytes
      /\ written + Portion <= Size /\ Size \in Nat /\ written \in Nat
      /\ made.bpb.sectors_per_cluster \in Nat
  <2>1. Bytes \in Nat /\ Bytes > 0 /\ m \in Nat /\ written = m * Bytes /\ Portion \in 1..Bytes
        /\ written + Portion <= Size /\ Size \in Nat /\ made.bpb.sectors_per_cluster \in Nat
    BY <1>3, Shape, Constants, SizeIs DEF Current, Bytes
  <2>2. m * Bytes \in Nat
    BY <2>1
  <2> QED  BY <2>1, <2>2
<1>7. ASSUME NEW k \in 0..written - 1, k < Bytes PROVE Place(k)[1] \in Sector /\ disk'[Place(k)[1]][Place(k)[2]] = inbuf[k]
  <2> DEFINE q == k \div SectorSize
             r == k % SectorSize
             s == Partition.start_sector + (FirstSector(made.bpb, Nth(0)) + q)
  <2>1. m # 0 /\ k \in 0..Bytes - 1 /\ k \in Nat
    <3>1. m # 0
      <4> SUFFICES ASSUME m = 0 PROVE FALSE
        OBVIOUS
      <4>1. \A b \in Nat : 0 * b = 0
        OBVIOUS
      <4> HIDE DEF Bytes
      <4> QED  BY <1>6, <1>7, <4>1
    <3> HIDE DEF Bytes
    <3> QED  BY <1>6, <1>7, <3>1
  <2>2. /\ Place(k) = <<s, r>> /\ q \in 0..made.bpb.sectors_per_cluster - 1 /\ r \in Cell
    <3>1. 0 * Bytes + k = k
      BY <1>6, <2>1
    <3> QED  BY <1>3, <2>1, <3>1, PlaceOf
  <2>3. /\ 0 \in Used(made, file.size) /\ Nth(0) \in 2..Clusters + 1
    <3>1. 0 * Bytes < Size
      <4>1. \A b \in Nat : 0 * b = 0
        OBVIOUS
      <4> HIDE DEF Bytes
      <4> QED  BY <1>6, <4>1
    <3>2. 0 \in 0..Clusters
      BY Constants
    <3> QED  BY <1>3, <3>1, <3>2, UsedIs
  <2>4. Nth(m) # Nth(0) /\ Nth(m) \in 2..Clusters + 1
    <3>1. Holds(made, file.record.first_cluster, file.size)
      BY <1>3 DEF Whole, OpenFile, NULL
    <3> QED  BY <1>3, <2>1, <2>3, <3>1 DEF Holds, Nth, Current
  <2>5. s \in Sector /\ disk[s][r] = inbuf[k]
    BY <1>4, <1>7, <2>2 DEF AtPlace
  <2>6. disk'[s][r] = disk[s][r]
    <3> SUFFICES ASSUME disk'[s][r] # disk[s][r] PROVE FALSE
      OBVIOUS
    <3>2. PICK l \in 0..made.bpb.sectors_per_cluster - 1 : s = ClusterStart + l
      BY <1>2, <1>3, <2>2, <2>5, StoredCell
    <3>3. ClusterStart = Partition.start_sector + FirstSector(made.bpb, Nth(m))
      BY <1>3 DEF ClusterStart, Current
    <3>4. /\ FirstSector(made.bpb, Nth(0)) \in Nat /\ FirstSector(made.bpb, Nth(m)) \in Nat
          /\ Partition.start_sector \in Nat
      BY <1>3, <2>3, <2>4, FirstSectorIs, Constants
    <3>5. FirstSector(made.bpb, Nth(0)) + q = FirstSector(made.bpb, Nth(m)) + l
      <4> HIDE DEF q
      <4> QED  BY <1>6, <2>2, <3>2, <3>3, <3>4
    <3> QED  BY <1>3, <2>2, <2>3, <2>4, <3>5, Apart
  <2> QED  BY <2>2, <2>5, <2>6
<1>8. inbuf' = inbuf /\ Bytes' = Bytes /\ \A k : Place(k)' = Place(k)
  BY <1>5, PlaceKept DEF inbuf, Bytes, PerCluster
<1>9. \A k : AtPlace(k)' = disk'[Place(k)[1]][Place(k)[2]]
  BY <1>8 DEF AtPlace
<1> QED  BY <1>3, <1>5, <1>7, <1>8, <1>9 DEF Moved

\* The FAT leads to the next cluster of the file.
LEMMA ChainLeads ==
  ASSUME IInv, ~Damaged, Progress, ChainRead, op.kind \in {"read", "write"}, failures' = {},
         failures = {}, UNCHANGED <<op, file, made>>
  PROVE  (\E m \in 0..Clusters : Before(m)') /\ written' \in 0..Size' /\ Moved'
<1>1. /\ pc = "chain" /\ call = NoCall /\ answer.ok /\ UNCHANGED <<disk, written, got>>
      /\ Control /\ FileOpen /\ Sound /\ Located /\ Whole /\ Asked
  BY DEF ChainRead, Answered, IInv, deviceVars
<1>2. /\ volume = made.bpb /\ made \in Volumes /\ cluster \in Nat
      /\ file \in OpenFile /\ ~file.directory
      /\ Reads(Partition.start_sector + FatSector(volume, cluster), 1)
  BY <1>1 DEF Control, FileOpen, Located, Asked
<1>3. /\ written \in 0..Size /\ (\E m \in 0..Clusters : After(m)) /\ Moved
  BY <1>1 DEF Progress
<1>4. PICK m \in 0..Clusters : After(m)
  BY <1>3
<1>5. /\ m \in 0..Clusters - 1 /\ Nth(m) \in 2..Clusters + 1 /\ cluster = Nth(m)
      /\ (written = (m + 1) * Bytes \/ written = Size)
  BY <1>1, <1>2, <1>4, UsedIs DEF After
<1> DEFINE start == Partition.start_sector + FatSector(made.bpb, cluster)
           b == cluster % SectorSize
<1>6. start \in Nat /\ b \in Cell
  BY <1>2, FatSectorIs
<1>7. start \in Sector /\ answer.data[0] = disk[start]
  <2>1. start + 0 \in Sector /\ answer.data[0] = disk[start + 0]
    <3> HIDE DEF start
    <3>1. Reads(start, 1)
      BY <1>2 DEF start
    <3> QED  BY <1>1, <1>6, <3>1, ReadData
  <2>2. start + 0 = start
    <3> HIDE DEF start
    <3> QED  BY <1>6
  <2> QED  BY <2>1, <2>2
<1>8. DiskOf(made)[start][b] = [kind |-> "next", cluster |-> made.fat[cluster]]
  <2>1. cluster \in 0..Clusters + 1
    BY <1>5, Constants
  <2> QED  BY <1>2, <1>7, <2>1, FatPlace
<1>9. disk[start][b] = [kind |-> "next", cluster |-> made.fat[cluster]]
  BY <1>1, <1>6, <1>7, <1>8 DEF Sound
<1>10. cluster' = made.fat[cluster]
  <2>1. cluster' \in NextOf(answer.data[0][b])
    BY <1>1 DEF ChainRead
  <2> HIDE DEF b
  <2> QED  BY <1>7, <1>9, <2>1 DEF NextOf
<1>11. Nth(m + 1) = made.fat[Nth(m)]
  <2>1. Nth(m) < EOC
    BY <1>5, Constants
  <2> QED  BY <1>5, <2>1, FollowIs DEF Nth
<1>12. Size' = Size /\ Bytes' = Bytes /\ Nth(m + 1)' = Nth(m + 1)
  BY DEF Size, Bytes, PerCluster, Nth, Follow
<1>13. m + 1 \in 0..Clusters /\ Before(m + 1)'
  <2>1. m + 1 \in 0..Clusters
    BY <1>5, Constants
  <2>2. cluster' = Nth(m + 1) /\ (written' = (m + 1) * Bytes \/ written' = Size)
    BY <1>1, <1>5, <1>10, <1>11
  <2> QED  BY <1>12, <2>1, <2>2 DEF Before
<1>14. Moved'
  BY <1>1, <1>3, MovedKept
<1>15. \E k \in 0..Clusters : Before(k)'
  BY <1>13
<1> QED  BY <1>1, <1>3, <1>12, <1>14, <1>15


LEMMA ProgressStep ==
  ASSUME IInv, ~Damaged, Next
  PROVE  Progress'
<1> SUFFICES ASSUME op'.kind \in {"read", "write"}, pc' \notin {"idle", "unmounted", "mounting"},
                    failures' = {}
             PROVE  Progress'
  BY DEF Progress
<1>1. CASE \E n \in Sizes : ReadFile(n) \/ WriteFile(n)
  BY <1>1, ProgressBegins
<1>2. CASE /\ UNCHANGED <<op, file, made>> /\ failures \subseteq failures'
           /\ pc \notin {"idle", "unmounted", "mounting"}
  <2>1. failures = {} /\ op.kind \in {"read", "write"} /\ Control /\ Progress
    BY <1>2 DEF IInv
  <2>2. /\ written \in 0..Size
        /\ IF pc \in {"next", "chain"} THEN \E m \in 0..Clusters : After(m)
           ELSE \E m \in 0..Clusters : Before(m)
        /\ pc \in {"copy", "patch", "stored"} => Transferring
        /\ Moved
    BY <1>2, <2>1 DEF Progress
  <2> DEFINE Still == UNCHANGED <<cluster, written, got>>
  <2>3. ASSUME Still
        PROVE  /\ written' \in 0..Size' /\ (Transferring => Transferring')
               /\ \A m \in 0..Clusters : (Before(m) => Before(m)') /\ (After(m) => After(m)')
               /\ UNCHANGED disk => Moved'
    BY <1>2, <2>2, <2>3, Kept, MovedKept
  <2>4. CASE ReadCluster \/ (WriteCluster /\ ReadClusterThen("patch") /\ UNCHANGED callVars)
    <3>1. /\ Still /\ UNCHANGED disk /\ pc \in {"read", "write"} /\ pc' \in {"copy", "patch"}
          /\ Transferring
      BY <2>4 DEF ReadCluster, WriteCluster, ReadClusterThen, Asks, callVars, gpt_read_partition,
                  BeginRead
    <3> QED  BY <2>2, <2>3, <3>1 DEF Progress
  <2>5. CASE CopyCluster \/ Stored
    <3>1. answer.ok /\ pc \in {"copy", "stored"} /\ pc' = "next"
      BY <2>5 DEF CopyCluster, Stored, Answered, Returns
    <3>2. UNCHANGED cluster /\ written' = written + Portion
      BY <2>5, <3>1 DEF CopyCluster, Stored
    <3>3. Moved'
      BY <1>2, <2>1, <2>5, <3>1, ReadMoves, WriteMoves
    <3>4. PICK m \in 0..Clusters - 1 : Current(m)
      BY <2>1, <3>1, Transferred
    <3>5. Size' = Size /\ Bytes' = Bytes /\ Nth(m)' = Nth(m)
      BY <1>2 DEF Size, Bytes, PerCluster, Nth, Follow
    <3>6. /\ Bytes \in Nat /\ Size \in Nat /\ m \in Nat /\ m \in 0..Clusters
          /\ written \in Nat /\ Portion \in 1..Bytes /\ written + Portion <= Size
          /\ written = m * Bytes /\ cluster = Nth(m)
          /\ (written + Portion = Size \/ written + Portion = (m + 1) * Bytes)
      <4>1. made \in Volumes /\ file \in OpenFile /\ Clusters \in Nat
        BY <1>2, <2>1, Constants DEF Control, IInv, FileOpen
      <4>2. Size \in Nat /\ Bytes \in Nat
        BY <2>1, <4>1, SizeIs, Shape DEF Bytes
      <4> HIDE DEF Bytes
      <4> QED  BY <2>2, <3>4, <4>1, <4>2 DEF Current
    <3>7. written' \in 0..Size' /\ m * Bytes < Size
      <4> HIDE DEF Bytes
      <4> QED  BY <3>2, <3>5, <3>6
    <3>8. After(m)'
      BY <3>2, <3>5, <3>6, <3>7 DEF After
    <3> QED  BY <3>1, <3>3, <3>6, <3>7, <3>8 DEF Progress
  <2>6. CASE PatchCluster
    <3>1. answer.ok /\ pc = "patch" /\ pc' = "stored"
      BY <2>6 DEF PatchCluster, Answered, Returns
    <3>2. Still /\ UNCHANGED disk
      BY <2>6, <3>1 DEF PatchCluster, gpt_write_back, BeginWrite, callVars
    <3> QED  BY <2>2, <2>3, <3>1, <3>2 DEF Progress
  <2>7. CASE NextCluster
    <3>1. Still /\ UNCHANGED disk /\ pc = "next" /\ pc' = "chain"
      BY <2>7 DEF NextCluster, Asks, callVars, gpt_read_partition, BeginRead
    <3> QED  BY <2>2, <2>3, <3>1 DEF Progress
  <2>8. CASE ChainRead
    <3>1. pc' \in {"read", "write"}
      BY <2>1, <2>8 DEF ChainRead
    <3>2. (\E m \in 0..Clusters : Before(m)') /\ written' \in 0..Size' /\ Moved'
      BY <1>2, <2>1, <2>8, ChainLeads
    <3> QED  BY <3>1, <3>2 DEF Progress
  <2>9. CASE Device /\ call # NoCall /\ Other
    <3>1. Still /\ pc' = pc
      BY <2>9 DEF Other, callVars
    <3>2. Moved'
      <4>1. CASE UNCHANGED disk
        BY <2>3, <3>1, <4>1
      <4>2. CASE WriteSector
        BY <2>1, <2>9, <4>2, StoringMoves
      <4> QED  BY <4>1, <4>2, DiskStays
    <3> QED  BY <2>2, <2>3, <3>1, <3>2 DEF Progress
  <2>10. ~Mount /\ ~MountReturns /\ ~Unmount /\ ~Close /\ (\A p \in Paths : ~Open(p))
         /\ \A n \in Sizes : ~ReadDir(n) /\ ~ReadFile(n) /\ ~WriteFile(n) /\ ~WriteDirectory(n)
    BY <1>2 DEF Mount, MountReturns, Unmount, Close, Open, ReadDir, ReadFile, WriteFile,
                WriteDirectory, Begins, Answered
  <2>11. ~OpenRoot /\ ~SearchCluster /\ ~Search /\ ~SearchEnds /\ ~ListCluster /\ ~List /\ ~ListEnds
    BY <2>1 DEF Control, OpenRoot, SearchCluster, Search, SearchEnds, ListCluster, List, ListEnds
  <2>12. ~ReadEnds /\ ~WriteEnds /\ ~Returns(0)
    BY DEF ReadEnds, WriteEnds, Returns
  <2> QED
    BY <2>4, <2>5, <2>6, <2>7, <2>8, <2>9, <2>10, <2>11, <2>12, Steps DEF WriteCluster
<1> QED  BY <1>1, <1>2, GoesOn


\* A transfer that ends has moved everything: the chain is as long as the size tells.
LEMMA Complete ==
  ASSUME IInv, failures = {}, pc \in {"read", "write"}, ~Transferring
  PROVE  written = Size /\ Moved
<1>1. op.kind = pc /\ ~Damaged
  BY DEF IInv, Control, Damaged
<1>2. Control /\ FileOpen /\ Whole /\ Progress /\ made \in Volumes
  BY <1>1 DEF IInv, Control
<1>3. file \in OpenFile /\ ~file.directory
  BY <1>1, <1>2 DEF FileOpen
<1>4. written \in 0..Size /\ (\E m \in 0..Clusters : Before(m)) /\ Moved
  BY <1>1, <1>2 DEF Progress
<1>5. PICK m \in 0..Clusters : Before(m)
  BY <1>4
<1>6. Size \in Nat
  BY <1>2, <1>3, SizeIs
<1>7. ASSUME written < Size PROVE FALSE
  <2>1. written = m * Bytes /\ cluster = Nth(m)
    BY <1>5, <1>7, <1>4, <1>6 DEF Before
  <2>2. Nth(m) \in 2..Clusters + 1
    BY <1>2, <1>3, <1>7, <2>1, UsedIs
  <2>3. cluster < EOC
    BY <2>1, <2>2, Constants
  <2> QED  BY <1>7, <2>3 DEF Transferring
<1> QED  BY <1>4, <1>6, <1>7

LEMMA NeverRefused ==
  ASSUME IInv, failures = {}, pc = "write"
  PROVE  ~Refused(0, volume.sectors_per_cluster, Portion)
<1>1. op.kind = "write" /\ ~Damaged
  BY DEF IInv, Control, Damaged
<1>2. Control /\ FileOpen /\ Progress /\ volume = made.bpb /\ made \in Volumes
  BY <1>1 DEF IInv, Control, Located
<1>3. file \in OpenFile /\ written \in 0..Size
  BY <1>1, <1>2 DEF FileOpen, Progress
<1> DEFINE n == volume.sectors_per_cluster
<1>4. Size \in Nat /\ PerCluster(volume) \in Nat /\ n \in Nat
  BY <1>2, <1>3, SizeIs, Shape
<1>5. PerCluster(volume) = SectorSize * n
  <2>1. \A p \in Nat, q \in Nat : p * q = q * p
    OBVIOUS
  <2> QED  BY <1>4, <2>1, Constants DEF PerCluster
<1>6. Portion \in Nat /\ Portion <= PerCluster(volume)
  BY <1>3, <1>4 DEF Portion
<1> HIDE DEF n
<1>7. 0 + Portion <= SectorSize * n
  BY <1>4, <1>5, <1>6
<1>8. SectorSize * n \in Nat
  BY <1>4, <1>5
<1>9. ~(0 + Portion > SectorSize * n)
  BY <1>6, <1>7, <1>8
<1> QED  BY <1>9 DEF Refused, n

LEMMA TransfersStep ==
  ASSUME IInv, Next
  PROVE  TransfersMatch'
<1>1. Control /\ FileOpen
  BY DEF IInv
<1> SUFFICES ASSUME result'.kind \in {"read", "write"}, file' # NULL, ~file'.directory
             PROVE  TransfersMatch'
  BY DEF TransfersMatch
<1> USE DEF NULL
<1>2. ASSUME UNCHANGED result PROVE pc = "idle" /\ call = NoCall
  BY <1>1, <1>2 DEF Control, Waiting
<1>3. CASE (CopyCluster \/ PatchCluster \/ Stored) /\ ~answer.ok
  <2>1. "data" \in failures' /\ result'.value = 0
    BY <1>3 DEF CopyCluster, PatchCluster, Stored, Answered, Returns
  <2> QED  BY <2>1 DEF TransfersMatch
<1>4. CASE ReadEnds \/ WriteEnds
  <2>1. /\ pc \in {"read", "write"} /\ ~Transferring /\ failures' = failures
        /\ result' = [kind |-> op.kind, value |-> written] /\ UNCHANGED <<op, made, disk, got>>
    BY <1>4 DEF ReadEnds, WriteEnds, Returns, deviceVars
  <2>2. "data" \notin failures /\ op.kind = pc
    BY <1>1, <2>1 DEF Control
  <2>3. CASE failures # {}
    BY <2>1, <2>2, <2>3 DEF TransfersMatch
  <2>4. CASE failures = {}
    <3>1. written = Size /\ Moved
      BY <2>1, <2>4, Complete
    <3>2. file \in OpenFile
      BY <1>1, <2>1, <2>2 DEF FileOpen
    <3>3. file'.size = file.size /\ file'.record.first_cluster = file.record.first_cluster
      <4>1. CASE UNCHANGED file
        BY <4>1
      <4>2. CASE file' = [file EXCEPT !.record.size = Size]
        BY <3>2, <4>2 DEF OpenFile, fat_file
      <4> QED  BY <1>4, <4>1, <4>2 DEF ReadEnds, WriteEnds
    <3>4. \A k : AtPlace(k)' = AtPlace(k)
      BY <2>1, <3>3 DEF AtPlace, Place, Follow, PerCluster, FirstSector, FirstDataSector, FatSize
    <3>5. inbuf' = inbuf /\ PerCluster(made.bpb)' = Bytes
      BY <2>1 DEF inbuf, Bytes, PerCluster
    <3>6. Size = IF op.size < file.size THEN op.size ELSE file.size
      BY <1>1, <3>2, SizeIs
    <3>7. op.kind = "read" => \A k \in 1..written : got[k] = AtPlace(k - 1)
      BY <3>1 DEF Moved
    <3>8. op.kind = "write" => \A k \in 0..written - 1 : k < Bytes => AtPlace(k) = inbuf[k]
      BY <3>1 DEF Moved
    <3> QED  BY <2>1, <2>2, <2>4, <3>1, <3>3, <3>4, <3>5, <3>6, <3>7, <3>8 DEF TransfersMatch
  <2> QED  BY <2>3, <2>4
<1>5. CASE WriteCluster /\ Returns(0) /\ UNCHANGED <<file, failures>>
           /\ Refused(0, volume.sectors_per_cluster, Portion)
  <2>1. pc = "write" /\ "data" \notin failures
    BY <1>1, <1>5 DEF WriteCluster, Control
  <2>2. failures # {}
    BY <1>5, <2>1, NeverRefused
  <2> QED  BY <1>5, <2>1, <2>2 DEF TransfersMatch
<1>6. CASE WriteCluster /\ ReadClusterThen("patch")
  BY <1>2, <1>6 DEF WriteCluster, ReadClusterThen, Asks
<1>7. CASE (CopyCluster \/ PatchCluster \/ Stored) /\ answer.ok
  BY <1>2, <1>7 DEF CopyCluster, PatchCluster, Stored, Answered
<1>8. ~Unmount /\ ~Close /\ (\A p \in Paths : ~Open(p))
      /\ \A n \in Sizes : ~ReadDir(n) /\ ~ReadFile(n) /\ ~WriteFile(n)
  BY DEF Unmount, Close, Open, ReadDir, ReadFile, WriteFile, Begins
<1>9. \A n \in Sizes : ~WriteDirectory(n)
  BY DEF WriteDirectory
<1>10. ~Mount /\ ~MountReturns /\ ~SearchCluster /\ ~ListCluster /\ ~ReadCluster /\ ~NextCluster
       /\ ~ChainRead
  BY <1>2 DEF Mount, MountReturns, SearchCluster, ListCluster, ReadCluster, NextCluster, ChainRead,
              EnterCluster, ReadClusterThen, Asks, Answered
<1>11. ~OpenRoot /\ ~SearchEnds /\ ~ListEnds
  BY <1>1 DEF Control, OpenRoot, SearchEnds, OpenFails, ListEnds, Returns
<1>12. ~Search
  BY <1>1, <1>2 DEF Search, OpenFails, Found, EntriesEnd, SkipEntry, Returns, Answered
<1>13. ~List
  BY <1>1, <1>2 DEF List, EntriesEnd, ListFile, SkipEntry, Returns, Answered
<1>14. ~(Device /\ call # NoCall /\ Other)
  BY <1>2 DEF Other
<1> QED
  BY <1>3, <1>4, <1>5, <1>6, <1>7, <1>8, <1>9, <1>10, <1>11, <1>12, <1>13, <1>14, Steps
     DEF WriteCluster


-----------------------------------------------------------------------------
LEMMA InvInit == Init => IInv
<1> SUFFICES ASSUME Init PROVE IInv
  OBVIOUS
<1>1. Control
  BY DEF Init, Control, Waiting, NULL, NoCall
<1>2. FileOpen
  BY DEF Init, FileOpen
<1>3. DamagedFile
  BY DEF Init, DamagedFile
<1>4. Sound
  BY DEF Init, Sound, DiskOf
<1>5. Located /\ Whole /\ Asked /\ Progress
  BY DEF Init, Located, Whole, Asked, Progress
<1>6. TransfersMatch
  BY DEF Init, TransfersMatch, NULL
<1> QED  BY <1>1, <1>2, <1>3, <1>4, <1>5, <1>6 DEF IInv

\* After a write that missed a FAT sector no call begins.
LEMMA DamageStays ==
  ASSUME IInv, Next, Damaged
  PROVE  Damaged'
<1>1. CASE pc \notin {"idle", "unmounted", "mounting"}
  BY <1>1, OpStays, FailuresGrow DEF Damaged
<1>2. CASE pc \in {"idle", "unmounted", "mounting"}
  <2> USE DEF Damaged, Asks, ReadClusterThen, EnterCluster, Answered
  <2>1. /\ \A p \in Paths : ~Open(p)
        /\ \A n \in Sizes : ~ReadDir(n) /\ ~ReadFile(n) /\ ~WriteFile(n)
    BY DEF Open, ReadDir, ReadFile, WriteFile, Begins
  <2>2. \A n \in Sizes : ~WriteDirectory(n)
    BY DEF IInv, DamagedFile, WriteDirectory
  <2>3. CASE Mount \/ MountReturns \/ Unmount \/ Close
    BY <2>3 DEF Mount, MountReturns, Unmount, Close
  <2>4. CASE Device /\ call # NoCall /\ Other
    BY <2>4 DEF Other
  <2>5. ~OpenRoot /\ ~SearchCluster /\ ~Search /\ ~SearchEnds /\ ~ListCluster /\ ~List /\ ~ListEnds
    BY <1>2 DEF OpenRoot, SearchCluster, Search, SearchEnds, ListCluster, List, ListEnds
  <2>6. ~ReadCluster /\ ~CopyCluster /\ ~ReadEnds /\ ~WriteCluster /\ ~PatchCluster /\ ~Stored
        /\ ~WriteEnds /\ ~NextCluster /\ ~ChainRead
    BY <1>2 DEF ReadCluster, CopyCluster, ReadEnds, WriteCluster, PatchCluster, Stored, WriteEnds,
                NextCluster, ChainRead
  <2> QED  BY <2>1, <2>2, <2>3, <2>4, <2>5, <2>6, Steps
<1> QED  BY <1>1, <1>2

LEMMA InvStep == IInv /\ [Next]_vars => IInv'
<1> SUFFICES ASSUME IInv, [Next]_vars PROVE IInv'
  OBVIOUS
<1>1. CASE Next
  <2>1. Control' /\ FileOpen' /\ DamagedFile' /\ TransfersMatch'
    BY <1>1, ControlStep, FileOpenStep, DamagedFileStep, TransfersStep DEF IInv
  <2>2. ASSUME ~Damaged' PROVE (Sound /\ Located /\ Whole /\ Asked /\ Progress)'
    <3>1. ~Damaged
      BY <1>1, <2>2, DamageStays
    <3>2. Sound' /\ Whole'
      BY <1>1, <3>1, SoundStep, WholeStep DEF IInv
    <3>3. Located' /\ Asked' /\ Progress'
      BY <1>1, <3>1, LocatedStep, AskedStep, ProgressStep
    <3> QED  BY <3>2, <3>3
  <2> QED  BY <2>1, <2>2 DEF IInv
<1>2. CASE UNCHANGED vars
  <2> USE <1>2 DEF vars, callVars, deviceVars
  <2>1. Control' = Control /\ FileOpen' = FileOpen /\ DamagedFile' = DamagedFile /\ Damaged' = Damaged
    BY DEF Control, FileOpen, DamagedFile, Damaged
  <2>2. Sound' = Sound /\ Located' = Located
    BY DEF Sound, Located, DiskOf
  <2>3. Whole' = Whole
    BY DEF Whole, Holds, Follow, Used, PerCluster
  <2>4. /\ ClusterStart' = ClusterStart /\ InCluster' = InCluster /\ Portion' = Portion
        /\ inbuf' = inbuf
    BY DEF ClusterStart, InCluster, Portion, Size, inbuf, PerCluster, FirstSector
  <2>5. \A a, b : Reads(a, b)' = Reads(a, b)
    BY DEF Reads
  <2>6. Writes' = Writes
    BY <2>4 DEF Writes
  <2>7. Asked' = Asked
    BY <2>4, <2>6 DEF Asked, Reads, FatSector
  <2>8. Size' = Size /\ Transferring' = Transferring /\ \A m : Before(m)' = Before(m) /\ After(m)' = After(m)
    BY DEF Size, Transferring, Before, After, Nth, Follow, Bytes, PerCluster
  <2>9. Moved' = Moved
    <3>1. \A k : Place(k)' = Place(k) /\ AtPlace(k)' = AtPlace(k)
      BY PlaceKept DEF AtPlace
    <3> QED  BY <2>4, <3>1 DEF Moved, OnDisk, Bytes, PerCluster
  <2>10. Progress' = Progress
    BY <2>8, <2>9 DEF Progress
  <2>11. TransfersMatch' = TransfersMatch
    <3>1. \A k : AtPlace(k)' = AtPlace(k)
      BY PlaceKept DEF AtPlace
    <3> QED  BY <2>4, <3>1 DEF TransfersMatch, PerCluster
  <2> QED  BY <2>1, <2>2, <2>3, <2>7, <2>10, <2>11 DEF IInv
<1> QED  BY <1>1, <1>2

LEMMA Invariance == Spec => []IInv
<1>1. Init => IInv
  BY InvInit
<1>2. IInv /\ [Next]_vars => IInv'
  BY InvStep
<1> QED  BY <1>1, <1>2, PTL DEF Spec

\* A read or a write moves what was asked for, to and from the file's own places in order, or
\* returns 0 when a data sector failed (fat32_read_file, fat32_write): on every intact volume,
\* with files in any order of clusters, and for all sizes.
THEOREM Transfers == Spec => []TransfersMatch
<1>1. IInv => TransfersMatch
  BY DEF IInv
<1> QED  BY <1>1, Invariance, PTL

LEMMA WritesStep ==
  ASSUME IInv, Next, NEW s \in Sector, NEW b \in Cell, disk'[s][b] # disk[s][b], "fat" \notin failures
  PROVE  op.kind = "write" /\ \E k \in 0..file.size - 1 : k < op.size /\ Place(k) = <<s, b>>
<1>1. WriteSector
  BY DiskStays
<1>2. ~Damaged
  BY DEF Damaged
<1>3. PICK m \in 0..Clusters - 1 : Stores(m)
  BY <1>1, <1>2, Storing DEF WriteSector
<1>4. DOMAIN disk = Sector /\ Control
  BY <1>2 DEF IInv, Sound
<1>5. PICK q \in 0..made.bpb.sectors_per_cluster - 1 :
         /\ q * SectorSize + b \in 0..Portion - 1
         /\ Place(m * Bytes + (q * SectorSize + b)) = <<s, b>>
  BY <1>1, <1>3, <1>4, StoredCell
<1> DEFINE j == q * SectorSize + b
           k == m * Bytes + j
<1>6. /\ written = m * Bytes /\ Portion \in 1..Bytes /\ written + Portion <= Size /\ Bytes \in Nat
      /\ file \in OpenFile /\ op.kind = "write"
  BY <1>3, Shape DEF Stores, Current, Bytes
<1>7. Size \in Nat /\ Size <= op.size /\ Size <= file.size /\ file.size \in Nat /\ op.size \in Nat
  BY <1>4, <1>6, SizeIs DEF Control
<1>8. m * Bytes \in Nat /\ j \in 0..Portion - 1
  BY <1>5, <1>6, Constants
<1> HIDE DEF j
<1>9. k \in 0..file.size - 1 /\ k < op.size
  <2> HIDE DEF Bytes
  <2> QED  BY <1>6, <1>7, <1>8
<1> QED  BY <1>5, <1>6, <1>9 DEF j

\* What changes on the disk are bytes of the open file that fwrite was given, whatever fails
\* but the reading of a FAT sector (gpt_write_partition_offset of fat32_write): no rest of a
\* sector, no other file, no FAT, directory or other partition.
THEOREM WritesOnly == Spec => WritesOnlyTheFile
<1> DEFINE Only ==
        \A s \in Sector : \A b \in Cell :
          disk'[s][b] # disk[s][b] =>
              \/ "fat" \in failures
              \/ /\ op.kind = "write"
                 /\ \E k \in 0..file.size - 1 : k < op.size /\ Place(k) = <<s, b>>
<1>1. IInv /\ [Next]_vars => [Only]_vars
  BY WritesStep
<1> QED  BY <1>1, Invariance, PTL DEF Spec, WritesOnlyTheFile

\* Wherever the driver is, the volume on the disk differs from what it was made as in bytes of
\* files only: no sector of the FAT, no directory and no boot sector is ever changed by it.
THEOREM VolumeKept == Spec => [](~Damaged => Sound)
<1>1. IInv => (~Damaged => Sound)
  BY DEF IInv
<1> QED  BY <1>1, Invariance, PTL

-----------------------------------------------------------------------------
\* Directories as they were made.
Record == fat_file \cup fat_long_filename \cup {[kind |-> "deleted"]}

LEMMA RecordIs ==
  ASSUME NEW v \in Volumes, NEW c \in DOMAIN v.entries
  PROVE  /\ v.entries[c] \in Seq(Record) /\ Len(v.entries[c]) \in Nat
         /\ DOMAIN v.entries[c] = 1..Len(v.entries[c])
         /\ Len(v.entries[c]) <= PerCluster(v.bpb)
         /\ c \in 2..Clusters + 1
         /\ \A n \in 1..Len(v.entries[c]) :
               /\ v.entries[c][n] \in Record
               /\ v.entries[c][n].kind \in {"file", "lfn", "deleted"}
               /\ v.entries[c][n].kind = "lfn" => v.entries[c][n].part \in STRING
               /\ v.entries[c][n].kind = "file" => v.entries[c][n] \in fat_file /\ v.entries[c][n].name # <<>>
<1> DEFINE s == v.entries[c]
<1>1. s \in Seq(Record)
  BY VolumesAssumption DEF Record
<1>2. Len(s) <= PerCluster(v.bpb) /\ c \in 2..Clusters + 1
  BY DirectoriesAssumption
<1>3. \A n \in DOMAIN s : s[n].kind = "file" => s[n].name # <<>>
  BY DirectoriesAssumption
<1> HIDE DEF s
<1>4. Len(s) \in Nat /\ DOMAIN s = 1..Len(s) /\ \A n \in 1..Len(s) : s[n] \in Record
  BY <1>1
<1>5. \A x \in Record :
         /\ x.kind \in {"file", "lfn", "deleted"}
         /\ x.kind = "lfn" => x.part \in STRING
         /\ x.kind = "file" => x \in fat_file
  BY DEF Record, fat_file, fat_long_filename
<1>6. \A n \in 1..Len(s) :
         /\ s[n].kind \in {"file", "lfn", "deleted"}
         /\ s[n].kind = "lfn" => s[n].part \in STRING
         /\ s[n].kind = "file" => s[n] \in fat_file
  BY <1>4, <1>5
<1>7. \A n \in 1..Len(s) : s[n].kind = "file" => s[n].name # <<>>
  BY <1>3, <1>4
<1>8. \A n \in 1..Len(s) :
               /\ s[n] \in Record
               /\ s[n].kind \in {"file", "lfn", "deleted"}
               /\ s[n].kind = "lfn" => s[n].part \in STRING
               /\ s[n].kind = "file" => s[n] \in fat_file /\ s[n].name # <<>>
  BY <1>4, <1>6, <1>7
<1> QED  BY <1>1, <1>2, <1>4, <1>8 DEF s

LEMMA FirstIs ==
  ASSUME NEW v \in Volumes, NEW d \in v.directories
  PROVE  d \in DOMAIN v.entries /\ d \in 2..Clusters + 1 /\ d # 0
<1>1. d \in DOMAIN v.entries /\ DOMAIN v.entries \subseteq 2..Clusters + 1
  BY DirectoriesAssumption
<1> QED  BY <1>1, Constants

\* A cluster is a directory's if and only if the one behind it is.
LEMMA Behind ==
  ASSUME NEW v \in Volumes, NEW c \in 0..Clusters + 1
  PROVE  /\ v.fat[c] \in Nat
         /\ v.fat[c] < EOC => /\ v.fat[c] \in 0..Clusters + 1
                              /\ v.fat[c] \in DOMAIN v.entries <=> c \in DOMAIN v.entries
<1>1. v.fat[c] \in Nat
  BY VolumesAssumption
<1>2. v.fat[c] >= EOC
      \/ (v.fat[c] <= Clusters + 1 /\ (v.fat[c] \in DOMAIN v.entries <=> c \in DOMAIN v.entries))
  BY DirectoriesAssumption
<1> QED  BY <1>1, <1>2, Constants

LEMMA ChainInside ==
  ASSUME NEW v \in Volumes, NEW d \in v.directories, NEW k \in 0..Clusters
  PROVE  /\ Follow(v, d)[k] \in Nat
         /\ Follow(v, d)[k] < EOC => Follow(v, d)[k] \in DOMAIN v.entries
<1> DEFINE f == Follow(v, d)
           good(n) == f[n] \in Nat /\ (f[n] < EOC => f[n] \in DOMAIN v.entries)
           T == {n \in 0..Clusters : ~good(n)}
<1>1. f[0] = d /\ \A n \in 0..Clusters - 1 : f[n + 1] = IF f[n] < EOC THEN v.fat[f[n]] ELSE EOC
  BY FollowIs
<1>2. d \in DOMAIN v.entries /\ d \in Nat
  BY FirstIs, Constants
<1>3. DOMAIN v.entries \subseteq 0..Clusters + 1
  <2>1. DOMAIN v.entries \subseteq 2..Clusters + 1
    BY DirectoriesAssumption
  <2> QED  BY <2>1, Constants
<1> HIDE DEF f
<1>4. T = {}
  <2> SUFFICES ASSUME T # {} PROVE FALSE
    OBVIOUS
  <2>1. PICK n \in T : \A m \in T : n <= m
    <3>1. T \subseteq Nat
      BY Constants
    <3> HIDE DEF T
    <3> QED  BY <3>1, Least
  <2>2. n # 0
    BY <1>1, <1>2, <2>1
  <2>3. n - 1 \in 0..Clusters - 1 /\ n - 1 \notin T /\ (n - 1) + 1 = n /\ n \in 0..Clusters
    BY <2>1, <2>2, Constants
  <2>4. good(n - 1)
    BY <2>3, Constants
  <2>5. f[n] = IF f[n - 1] < EOC THEN v.fat[f[n - 1]] ELSE EOC
    <3>1. f[(n - 1) + 1] = IF f[n - 1] < EOC THEN v.fat[f[n - 1]] ELSE EOC
      BY <1>1, <2>3
    <3> QED  BY <2>3, <3>1
  <2>6. CASE f[n - 1] < EOC
    <3>1. f[n - 1] \in DOMAIN v.entries /\ f[n - 1] \in 0..Clusters + 1 /\ f[n] = v.fat[f[n - 1]]
      BY <1>3, <2>4, <2>5, <2>6
    <3>2. good(n)
      BY <3>1, Behind
    <3> QED  BY <2>1, <3>2
  <2>7. CASE ~(f[n - 1] < EOC)
    <3>1. f[n] = EOC
      BY <2>5, <2>7
    <3> QED  BY <2>1, <3>1, Constants
  <2> QED  BY <2>6, <2>7
<1> QED  BY <1>4 DEF f

\* Behind the end of a chain there is no more of it.
LEMMA ChainOver ==
  ASSUME NEW v \in Volumes, NEW d \in v.directories, NEW k \in 0..Clusters, Follow(v, d)[k] >= EOC,
         NEW l \in k..Clusters
  PROVE  Follow(v, d)[l] >= EOC
<1> DEFINE f == Follow(v, d)
           T == {n \in k..Clusters : ~(f[n] >= EOC)}
<1>1. \A n \in 0..Clusters - 1 : f[n + 1] = IF f[n] < EOC THEN v.fat[f[n]] ELSE EOC
  BY FollowIs
<1>2. \A n \in 0..Clusters : f[n] \in Nat
  BY ChainInside
<1> HIDE DEF f
<1>4. T = {}
  <2> SUFFICES ASSUME T # {} PROVE FALSE
    OBVIOUS
  <2>1. PICK n \in T : \A m \in T : n <= m
    <3>1. T \subseteq Nat
      BY Constants
    <3> HIDE DEF T
    <3> QED  BY <3>1, Least
  <2>2. n # k
    BY <2>1 DEF f
  <2>3. n - 1 \in 0..Clusters - 1 /\ n - 1 \in k..Clusters /\ n - 1 \notin T /\ (n - 1) + 1 = n
    BY <2>1, <2>2, Constants
  <2>4. f[n - 1] >= EOC
    BY <2>3
  <2>5. f[(n - 1) + 1] = IF f[n - 1] < EOC THEN v.fat[f[n - 1]] ELSE EOC
    BY <1>1, <2>3
  <2>6. ~(f[n - 1] < EOC)
    <3>1. f[n - 1] \in Nat
      BY <1>2, <2>3, Constants
    <3> QED  BY <2>4, <3>1, Constants
  <2> QED  BY <2>1, <2>3, <2>5, <2>6, Constants
<1> QED  BY <1>4 DEF f
-----------------------------------------------------------------------------
\* Long names.
LEMMA SameSequence ==
  ASSUME NEW S, NEW s \in Seq(S), NEW t \in Seq(S), Len(s) = Len(t),
         \A k \in 1..Len(s) : s[k] = t[k]
  PROVE  s = t
OBVIOUS

LEMMA RunIs ==
  ASSUME NEW c, NEW n \in Nat, NEW m \in 1..n, NEW k \in 1..n, StartsRun(c, n, m), StartsRun(c, n, k)
  PROVE  m = k
<1>1. ASSUME NEW x \in 1..n, NEW y \in 1..n, x < y, StartsRun(c, n, x), StartsRun(c, n, y) PROVE FALSE
  <2>1. y > 1 /\ y - 1 \in x..n - 1
    BY <1>1
  <2> QED  BY <1>1, <2>1 DEF StartsRun
<1> QED  BY <1>1

LEMMA LongNameIs ==
  ASSUME NEW c, NEW n \in Nat, NEW m \in 1..n, StartsRun(c, n, m)
  PROVE  LongName(c, n) = Spelled(c, n, m)
<1>1. (CHOOSE k \in 1..n : StartsRun(c, n, k)) = m
  <2>1. \A k \in 1..n : StartsRun(c, n, k) => k = m
    BY RunIs
  <2> QED  BY <2>1
<1> QED  BY <1>1 DEF LongName

LEMMA SpelledNothing ==
  ASSUME NEW c, NEW n \in Nat
  PROVE  Spelled(c, n, n) = <<>>
<1>1. 1..n - n = {}
  OBVIOUS
<1>2. DOMAIN Spelled(c, n, n) = {}
  BY <1>1 DEF Spelled
<1>3. \A s : s = [j \in {} |-> made.entries[c][n - j].part] => s = <<>>
  OBVIOUS
<1> QED  BY <1>1, <1>3 DEF Spelled

LEMMA SpelledIs ==
  ASSUME made \in Volumes, NEW c \in DOMAIN made.entries, NEW n \in 1..Len(made.entries[c]) + 1,
         NEW m \in 1..n, StartsRun(c, n, m)
  PROVE  /\ Spelled(c, n, m) \in Seq(STRING) /\ Len(Spelled(c, n, m)) = n - m
         /\ \A j \in 1..n - m : Spelled(c, n, m)[j] = made.entries[c][n - j].part
<1> DEFINE s == made.entries[c]
<1>1. Len(s) \in Nat /\ \A k \in 1..Len(s) : s[k].kind = "lfn" => s[k].part \in STRING
  BY RecordIs
<1>2. \A j \in 1..n - m : n - j \in m..n - 1 /\ n - j \in 1..Len(s)
  BY <1>1
<1>3. \A j \in 1..n - m : s[n - j].part \in STRING
  BY <1>1, <1>2 DEF StartsRun, IsLong
<1>4. Spelled(c, n, m) = [j \in 1..n - m |-> s[n - j].part]
  BY DEF Spelled
<1> HIDE DEF s
<1>5. n - m \in Nat
  BY <1>1
<1> DEFINE g == [j \in 1..n - m |-> s[n - j].part]
<1>6. g \in [1..n - m -> STRING]
  BY <1>3
<1>7. g \in Seq(STRING) /\ Len(g) = n - m
  BY <1>5, <1>6
<1> QED  BY <1>4, <1>7 DEF s

LEMMA SpelledMore ==
  ASSUME made \in Volumes, NEW c \in DOMAIN made.entries, NEW n \in 1..Len(made.entries[c]),
         NEW m \in 1..n, StartsRun(c, n, m), IsLong(c, n)
  PROVE  /\ StartsRun(c, n + 1, m)
         /\ Spelled(c, n + 1, m) = <<made.entries[c][n].part>> \o Spelled(c, n, m)
<1> DEFINE a == <<made.entries[c][n].part>>
           s == Spelled(c, n, m)
           t == Spelled(c, n + 1, m)
<1>1. Len(made.entries[c]) \in Nat /\ made.entries[c][n].part \in STRING
  BY RecordIs DEF IsLong
<1>2. StartsRun(c, n + 1, m)
  BY <1>1 DEF StartsRun
<1>3. s \in Seq(STRING) /\ Len(s) = n - m /\ \A j \in 1..n - m : s[j] = made.entries[c][n - j].part
  <2>1. n \in 1..Len(made.entries[c]) + 1
    BY <1>1
  <2> QED  BY <2>1, SpelledIs
<1>4. /\ t \in Seq(STRING) /\ Len(t) = (n + 1) - m
      /\ \A j \in 1..(n + 1) - m : t[j] = made.entries[c][(n + 1) - j].part
  <2>1. n + 1 \in 1..Len(made.entries[c]) + 1 /\ m \in 1..n + 1
    BY <1>1
  <2> QED  BY <1>2, <2>1, SpelledIs
<1>5. a \in Seq(STRING) /\ Len(a) = 1 /\ a[1] = made.entries[c][n].part
  <2>1. \A x \in STRING : <<x>> \in Seq(STRING) /\ Len(<<x>>) = 1 /\ <<x>>[1] = x
    OBVIOUS
  <2> QED  BY <1>1, <2>1
<1>6. /\ a \o s \in Seq(STRING) /\ Len(a \o s) = 1 + (n - m)
      /\ (a \o s)[1] = made.entries[c][n].part
      /\ \A j \in 1..n - m : (a \o s)[1 + j] = made.entries[c][n - j].part
  <2> HIDE DEF a, s
  <2>1. a \o s \in Seq(STRING) /\ Len(a \o s) = 1 + (n - m) /\ (a \o s)[1] = a[1]
        /\ \A j \in 1..n - m : (a \o s)[1 + j] = s[j]
    <3>1. /\ a \o s \in Seq(STRING) /\ Len(a \o s) = Len(a) + Len(s)
          /\ \A k \in 1..Len(a) : (a \o s)[k] = a[k]
          /\ \A k \in 1..Len(s) : (a \o s)[Len(a) + k] = s[k]
      <4>1. a \in Seq(STRING) /\ s \in Seq(STRING)
        BY <1>3, <1>5
      <4> QED  BY <4>1
    <3>2. Len(a) = 1 /\ Len(s) = n - m
      BY <1>3, <1>5
    <3>3. 1 \in 1..Len(a)
      BY <3>2
    <3>4. (a \o s)[1] = a[1]
      BY <3>1, <3>3
    <3>5. \A j \in 1..n - m : (a \o s)[1 + j] = s[j]
      BY <3>1, <3>2
    <3> QED  BY <3>1, <3>2, <3>4, <3>5
  <2> QED  BY <1>3, <1>5, <2>1
<1> HIDE DEF a, s, t
<1>7. \A j \in 1..1 + (n - m) : (a \o s)[j] = t[j]
  <2>1. (n + 1) - 1 = n /\ 1 \in 1..(n + 1) - m
    BY <1>1
  <2>2. (a \o s)[1] = t[1]
    BY <1>4, <1>6, <2>1
  <2>3. ASSUME NEW j \in 1..n - m PROVE (a \o s)[1 + j] = t[1 + j]
    <3>1. 1 + j \in 1..(n + 1) - m /\ (n + 1) - (1 + j) = n - j
      BY <1>1
    <3> QED  BY <1>4, <1>6, <3>1
  <2>4. \A j \in 1..1 + (n - m) : j = 1 \/ (j - 1 \in 1..n - m /\ j = 1 + (j - 1))
    BY <1>1
  <2> QED  BY <2>2, <2>3, <2>4
<1>8. a \o s = t
  <2>1. Len(a \o s) = Len(t) /\ 1..1 + (n - m) = 1..Len(a \o s)
    BY <1>1, <1>4, <1>6
  <2>2. a \o s \in Seq(STRING) /\ t \in Seq(STRING) /\ \A j \in 1..Len(a \o s) : (a \o s)[j] = t[j]
    BY <1>4, <1>6, <1>7, <2>1
  <2> QED  BY <2>1, <2>2, SameSequence
<1> QED  BY <1>2, <1>8 DEF a, s, t

-----------------------------------------------------------------------------
\* What is read of a cluster.
Reading ==
    /\ made \in Volumes /\ e \in Nat /\ cluster \in Nat /\ volume = made.bpb /\ Sound
    /\ Reads(ClusterStart, volume.sectors_per_cluster) /\ call = NoCall /\ answer.ok

LEMMA CellRead ==
  ASSUME Reading, e < PerCluster(volume)
  PROVE  /\ e \div SectorSize \in 0..made.bpb.sectors_per_cluster - 1 /\ e % SectorSize \in Cell
         /\ (e \div SectorSize) * SectorSize + (e % SectorSize) = e
         /\ ClusterStart + (e \div SectorSize) \in Sector
         /\ answer.data[e \div SectorSize][e % SectorSize]
              = disk[ClusterStart + (e \div SectorSize)][e % SectorSize]
<1> DEFINE n == made.bpb.sectors_per_cluster
           start == ClusterStart
           q == e \div SectorSize
           r == e % SectorSize
           data == answer.data
<1>1. n \in Nat /\ SectorSize \in Nat /\ SectorSize > 0
  BY Shape, Constants DEF Reading
<1>2. e < n * SectorSize /\ e \in Nat
  BY DEF PerCluster, Reading
<1>3. /\ start..start + n - 1 \subseteq Sector
      /\ data = [k \in 0..n - 1 |-> disk[start + k]]
  BY DEF Reads, NoCall, Reading
<1>4. start \in Int
  BY ClusterStartIs DEF Reading
<1> HIDE DEF n, start, data
<1>5. q < n /\ q \in Nat /\ r \in 0..SectorSize - 1 /\ e = q * SectorSize + r
  BY <1>1, <1>2, Division, Below
<1> HIDE DEF q, r
<1>6. q \in 0..n - 1 /\ r \in Cell
  BY <1>1, <1>5 DEF Cell
<1>7. start + q \in Sector /\ data[q] = disk[start + q]
  BY <1>1, <1>3, <1>4, <1>6
<1> QED  BY <1>5, <1>6, <1>7 DEF n, start, q, r, data

LEMMA EntriesRead ==
  ASSUME Reading, cluster \in DOMAIN made.entries, NEW x \in EntriesAt(answer.data)
  PROVE  \/ e < Len(made.entries[cluster]) /\ x = made.entries[cluster][e + 1]
         \/ e >= Len(made.entries[cluster]) /\ x = END
         \/ /\ e >= PerCluster(made.bpb) /\ e < PerCluster(made.bpb) + PastBound
            /\ x = JunkFile
<1> DEFINE s == made.entries[cluster]
           p == PerCluster(volume)
           q == e \div SectorSize
           r == e % SectorSize
           cell == answer.data[q][r]
<1>1. /\ Len(s) \in Nat /\ Len(s) <= p /\ p \in Nat /\ PastBound \in Nat /\ e \in Nat /\ p = PerCluster(made.bpb)
      /\ cluster \in 2..Clusters + 1 /\ made \in Volumes
  BY RecordIs, Shape, FatAssumption DEF Reading
<1>2. CASE e >= p
  BY <1>1, <1>2 DEF EntriesAt
<1>3. CASE e < p
  <2>1. x \in IF cell.kind \in {"end", "deleted", "lfn", "file"} THEN {cell} ELSE {END, JunkFile}
    BY <1>1, <1>3 DEF EntriesAt
  <2>2. cell = DataCell(made, cluster, e)
    <3>1. /\ q \in 0..made.bpb.sectors_per_cluster - 1 /\ r \in Cell /\ q * SectorSize + r = e
          /\ ClusterStart + q \in Sector /\ cell = disk[ClusterStart + q][r]
      BY <1>3, CellRead
    <3>2. FirstSector(made.bpb, cluster) \in Nat /\ Partition.start_sector \in Nat /\ q \in Nat
      BY <1>1, <3>1, FirstSectorIs, Constants
    <3>3. ClusterStart + q = Partition.start_sector + FirstSector(made.bpb, cluster) + q
      BY <3>2 DEF ClusterStart, Reading
    <3> HIDE DEF q, r, cell
    <3>4. DiskOf(made)[ClusterStart + q][r] = DataCell(made, cluster, q * SectorSize + r)
      BY <1>1, <3>1, <3>3, DataPlace
    <3>5. DataCell(made, cluster, e).kind # "byte"
      <4>1. e < Len(s) => s[e + 1].kind \in {"file", "lfn", "deleted"}
        <5>1. e < Len(s) => e + 1 \in 1..Len(s)
          BY <1>1
        <5> QED  BY <1>1, <5>1, RecordIs
      <4> QED  BY <4>1 DEF DataCell, END
    <3> QED  BY <3>1, <3>4, <3>5 DEF Sound, Reading
  <2> HIDE DEF cell
  <2>3. CASE e < Len(s)
    <3>1. cell = s[e + 1] /\ e + 1 \in 1..Len(s)
      BY <1>1, <2>2, <2>3 DEF DataCell
    <3>2. cell.kind \in {"file", "lfn", "deleted"}
      BY <1>1, <3>1, RecordIs
    <3> QED  BY <2>1, <2>3, <3>1, <3>2
  <2>4. CASE e >= Len(s)
    <3>1. cell = END
      BY <1>1, <2>2, <2>4 DEF DataCell
    <3> QED  BY <2>1, <2>4, <3>1 DEF END
  <2> QED  BY <1>1, <2>3, <2>4
<1> QED  BY <1>1, <1>2, <1>3

LEMMA LowPlace ==
  ASSUME NEW v \in Volumes, NEW s \in Sector, NEW b \in Cell,
         NEW r \in Nat, r < FirstDataSector(v.bpb), s = Partition.start_sector + r
  PROVE  DiskOf(v)[s][b].kind \in {"boot", "next", "byte"}
<1> DEFINE f == r - v.bpb.reserved_sectors
           d == r - FirstDataSector(v.bpb)
           c == 2 + d \div v.bpb.sectors_per_cluster
<1>1. s - Partition.start_sector = r
  BY Constants DEF Sector
<1>2. DiskOf(v)[s][b] =
        IF r = 0 THEN [kind |-> "boot", bpb |-> v.bpb]
        ELSE IF f >= 0 /\ d < 0 THEN FatCell(v, (f % FatSize(v.bpb)) * SectorSize + b)
        ELSE IF d >= 0 /\ c \in 2..Clusters + 1
             THEN DataCell(v, c, (d % v.bpb.sectors_per_cluster) * SectorSize + b)
        ELSE ByteAt(0, s)
  BY <1>1 DEF DiskOf
<1>3. FirstDataSector(v.bpb) \in Nat
  BY Shape
<1>4. ~(d >= 0)
  BY <1>3
<1> HIDE DEF f, d, c
<1> QED  BY <1>2, <1>4 DEF FatCell, ByteAt

\* Of a cluster that is no directory's nothing is taken for a name.
LEMMA StrayRead ==
  ASSUME Reading, cluster \in (0..Clusters + 1) \ DOMAIN made.entries, NEW x \in EntriesAt(answer.data)
  PROVE  x \in {END, JunkFile}
<1> DEFINE p == PerCluster(volume)
           n == made.bpb.sectors_per_cluster
           first == FirstDataSector(made.bpb)
           q == e \div SectorSize
           r == e % SectorSize
           cell == answer.data[q][r]
<1>1. p \in Nat /\ PastBound \in Nat /\ e \in Nat /\ made \in Volumes /\ volume = made.bpb /\ Sound
  BY Shape, FatAssumption DEF Reading
<1>2. CASE e >= p
  BY <1>1, <1>2 DEF EntriesAt
<1>3. CASE e < p
  <2>1. x \in IF cell.kind \in {"end", "deleted", "lfn", "file"} THEN {cell} ELSE {END, JunkFile}
    BY <1>1, <1>3 DEF EntriesAt
  <2>2. cell.kind \notin {"end", "deleted", "lfn", "file"}
    <3>1. /\ q \in 0..n - 1 /\ r \in Cell /\ q * SectorSize + r = e
          /\ ClusterStart + q \in Sector /\ cell = disk[ClusterStart + q][r]
      BY <1>3, CellRead
    <3>2. DiskOf(made)[ClusterStart + q][r].kind \in {"boot", "next", "byte"}
      <4>1. CASE cluster >= 2
        <5>1. cluster \in 2..Clusters + 1
          BY <4>1, Constants
        <5>2. FirstSector(made.bpb, cluster) \in Nat /\ Partition.start_sector \in Nat /\ q \in Nat
          BY <1>1, <3>1, <5>1, FirstSectorIs, Constants
        <5>3. ClusterStart + q = Partition.start_sector + FirstSector(made.bpb, cluster) + q
          BY <1>1, <5>2 DEF ClusterStart
        <5> HIDE DEF q, r, cell
        <5>4. DiskOf(made)[ClusterStart + q][r] = DataCell(made, cluster, q * SectorSize + r)
          BY <1>1, <3>1, <5>1, <5>3, DataPlace
        <5> QED  BY <5>4 DEF DataCell, ByteAt
      <4>2. CASE ~(cluster >= 2)
        <5>1. n \in Nat /\ n > 0 /\ first \in Nat /\ first + Clusters * n <= Wrap /\ 2 * n <= first
              /\ Wrap \in Nat /\ Clusters \in Nat /\ Clusters > 0 /\ Partition.start_sector \in Nat
          BY <1>1, Shape, Constants, DirectoriesAssumption
        <5>2. ClusterStart = Partition.start_sector + (((cluster - 2) * n + first) % Wrap)
          BY <1>1 DEF ClusterStart, FirstSector
        <5>3. \A k \in Nat, m \in Nat : k > 0 => m <= k * m /\ k * m \in Nat
          OBVIOUS
        <5>4. n <= Clusters * n /\ Clusters * n \in Nat
          BY <5>1, <5>3
        <5>5. (cluster - 2) * n \in Int /\ 0 - 2 * n <= (cluster - 2) * n /\ (cluster - 2) * n <= 0 - n
          <6>1. cluster = 0 \/ cluster = 1
            BY <4>2, Constants
          <6> HIDE DEF n
          <6>2. CASE cluster = 0
            BY <5>1, <6>2
          <6>3. CASE cluster = 1
            BY <5>1, <6>3
          <6> QED  BY <6>1, <6>2, <6>3
        <5> DEFINE k == (cluster - 2) * n + first
                   t == Clusters * n
        <5> HIDE DEF n, first
        <5>6. k \in Nat /\ k + n <= first
          BY <5>1, <5>5
        <5> HIDE DEF k
        <5>7. k < Wrap
          <6>1. t \in Nat /\ first + t <= Wrap
            BY <5>1, <5>4
          <6> HIDE DEF t
          <6> QED  BY <5>1, <5>6, <6>1
        <5>8. k % Wrap = k
          <6>1. \A a \in Nat, w \in Nat : a < w => a % w = a
            OBVIOUS
          <6> QED  BY <5>1, <5>6, <5>7, <6>1
        <5>9. ClusterStart + q = Partition.start_sector + (k + q) /\ k + q \in Nat /\ k + q < first
          <6>1. ClusterStart = Partition.start_sector + k
            BY <5>2, <5>8 DEF k
          <6>2. q \in Nat /\ q < n
            BY <3>1, <5>1
          <6> HIDE DEF q
          <6> QED  BY <5>1, <5>6, <6>1, <6>2
        <5>10. \A s \in Sector, b \in Cell, h \in Nat :
                  h < first /\ s = Partition.start_sector + h => DiskOf(made)[s][b].kind \in {"boot", "next", "byte"}
          BY <1>1, LowPlace DEF first
        <5> HIDE DEF q, r, cell
        <5> QED  BY <3>1, <5>9, <5>10
      <4> QED  BY <4>1, <4>2
    <3> HIDE DEF q, r, cell
    <3> QED  BY <1>1, <3>1, <3>2 DEF Sound
  <2> QED  BY <2>1, <2>2
<1> QED  BY <1>1, <1>2, <1>3

-----------------------------------------------------------------------------
\* Paths.
LEMMA ReachedIs ==
  ASSUME NEW path, Len(path) \in Nat
  PROVE  /\ Reached(path)[0] = Root
         /\ \A k \in 0..Len(path) - 1 :
               Reached(path)[k + 1] = Onward(Reached(path)[k], path[k + 1])
<1> DEFINE N == Len(path)
           step(k, x) == Onward(x, path[k])
           solves(g, n) == g = [k \in 0..n |-> IF k = 0 THEN Root ELSE step(k, g[k - 1])]
           T == {n \in Nat : ~ \E g : solves(g, n)}
<1> HIDE DEF step
<1>1. T = {}
  <2> SUFFICES ASSUME T # {} PROVE FALSE
    OBVIOUS
  <2>1. PICK n \in T : \A m \in T : n <= m
    <3>1. T \subseteq Nat
      OBVIOUS
    <3> QED  BY <3>1, Least
  <2>2. CASE n = 0
    <3> DEFINE g == [k \in 0..0 |-> Root]
    <3>1. solves(g, 0)
      OBVIOUS
    <3> QED  BY <2>1, <2>2, <3>1
  <2>3. CASE n # 0
    <3>1. n - 1 \in Nat /\ n - 1 \notin T
      <4>1. n \in Nat /\ \A m \in T : n <= m
        BY <2>1
      <4> HIDE DEF T
      <4> QED  BY <2>3, <4>1
    <3>2. PICK g : solves(g, n - 1)
      BY <3>1
    <3> DEFINE h == [k \in 0..n |-> IF k = n THEN step(n, g[n - 1]) ELSE g[k]]
    <3>3. \A k \in 0..n : h[k] = IF k = 0 THEN Root ELSE step(k, h[k - 1])
      <4>1. n \in Nat
        BY <2>1
      <4>2. \A k \in 0..n - 1 : g[k] = IF k = 0 THEN Root ELSE step(k, g[k - 1])
        BY <3>2
      <4> QED  BY <4>1, <4>2, <2>3
    <3>4. solves(h, n)
      <4>1. h = [k \in 0..n |-> h[k]]
        OBVIOUS
      <4> HIDE DEF h
      <4> QED  BY <3>3, <4>1
    <3> QED  BY <2>1, <3>4
  <2> QED  BY <2>2, <2>3
<1>2. \E g : solves(g, N)
  BY <1>1
<1>3. solves(Reached(path), N)
  <2> DEFINE good(g) == g = [k \in 0..Len(path) |-> IF k = 0 THEN Root ELSE Onward(g[k - 1], path[k])]
  <2>1. \E g : good(g)
    BY <1>2 DEF step
  <2>2. good(CHOOSE g : good(g))
    <3> HIDE DEF good
    <3> QED  BY <2>1
  <2>3. Reached(path) = CHOOSE g : good(g)
    BY DEF Reached
  <2> QED  BY <2>2, <2>3 DEF step
<1> HIDE DEF T
<1> DEFINE f == Reached(path)
<1> HIDE DEF f
<1>4. f = [k \in 0..N |-> IF k = 0 THEN Root ELSE step(k, f[k - 1])]
  BY <1>3 DEF f
<1>5. f[0] = Root
  BY <1>4
<1>6. ASSUME NEW k \in 0..N - 1 PROVE f[k + 1] = step(k + 1, f[k])
  <2>1. k + 1 \in 0..N /\ k + 1 # 0 /\ (k + 1) - 1 = k
    OBVIOUS
  <2>2. f[k + 1] = step(k + 1, f[(k + 1) - 1])
    BY <1>4, <2>1
  <2> QED  BY <2>1, <2>2
<1> QED  BY <1>5, <1>6 DEF f, step

LEMMA RootIs ==
  Root # NULL /\ IsDirectory(Root) /\ Root.first_cluster = made.bpb.extended.root_cluster
BY DEF Root, JunkFile, NULL, IsDirectory

\* From nowhere a path leads nowhere.
LEMMA Nowhere ==
  ASSUME NEW path, Len(path) \in Nat, NEW k \in 0..Len(path), Reached(path)[k] = NULL
  PROVE  Reached(path)[Len(path)] = NULL
<1> DEFINE f == Reached(path)
           N == Len(path)
           T == {n \in k..N : f[n] # NULL}
<1>1. \A n \in 0..N - 1 : f[n] = NULL => f[n + 1] = NULL
  BY ReachedIs DEF Onward, IsDirectory
<1> HIDE DEF f
<1>2. T = {}
  <2> SUFFICES ASSUME T # {} PROVE FALSE
    OBVIOUS
  <2>1. PICK n \in T : \A m \in T : n <= m
    <3>1. T \subseteq Nat
      OBVIOUS
    <3> HIDE DEF T
    <3> QED  BY <3>1, Least
  <2>2. n # k
    BY <2>1 DEF f
  <2>3. n - 1 \in 0..N - 1 /\ n - 1 \in k..N /\ n - 1 \notin T /\ (n - 1) + 1 = n
    BY <2>1, <2>2
  <2>4. f[n - 1] = NULL
    BY <2>3
  <2>5. f[(n - 1) + 1] = NULL
    BY <1>1, <2>3, <2>4
  <2> QED  BY <2>1, <2>3, <2>5
<1> QED  BY <1>2 DEF f

\* Places are in one order.
LEMMA PlaceIs ==
  ASSUME NEW d, NEW p \in Places(d)
  PROVE  /\ p = <<p[1], p[2]>> /\ p[1] \in 0..Clusters - 1 /\ p[1] \in 0..Clusters /\ p[1] \in Nat /\ p[2] \in Nat \ {0}
         /\ ClusterAt(d, p) < EOC /\ p[2] \in DOMAIN made.entries[ClusterAt(d, p)]
<1>1. p \in (0..Clusters - 1) \X (1..PerCluster(made.bpb))
  BY DEF Places
<1>2. ClusterAt(d, p) < EOC /\ p[2] \in DOMAIN made.entries[ClusterAt(d, p)]
  BY DEF Places, ClusterAt
<1>3. p = <<p[1], p[2]>> /\ p[1] \in 0..Clusters - 1 /\ p[2] \in 1..PerCluster(made.bpb)
  BY <1>1
<1>4. \A m, n : n \in 1..m => n \in Nat \ {0}
  OBVIOUS
<1> QED  BY <1>2, <1>3, <1>4, Constants

LEMMA InOrder ==
  ASSUME NEW d, NEW p \in Places(d), NEW q \in Places(d), ~Precedes(p, q), ~Precedes(q, p)
  PROVE  p = q
<1>1. /\ p = <<p[1], p[2]>> /\ p[1] \in Nat /\ p[2] \in Nat
      /\ q = <<q[1], q[2]>> /\ q[1] \in Nat /\ q[2] \in Nat
  BY PlaceIs
<1>2. p[1] = q[1] /\ p[2] = q[2]
  BY <1>1 DEF Precedes
<1> QED  BY <1>1, <1>2

LEMMA FileAt ==
  ASSUME made \in Volumes, NEW d \in made.directories, NEW p \in Files(d)
  PROVE  /\ p \in Places(d)
         /\ ClusterAt(d, p) \in DOMAIN made.entries /\ p[2] \in 1..Len(made.entries[ClusterAt(d, p)])
         /\ EntryAt(d, p) \in fat_file /\ EntryAt(d, p) # NULL /\ EntryAt(d, p).name # <<>>
         /\ IF "DIRECTORY" \in EntryAt(d, p).attributes
            THEN EntryAt(d, p).first_cluster \in made.directories \cup {0}
            ELSE EntryAt(d, p).first_cluster \in (0..Clusters + 1) \ DOMAIN made.entries
<1>1. p \in Places(d) /\ EntryAt(d, p).kind = "file"
  BY DEF Files
<1>2. ClusterAt(d, p) < EOC /\ p[1] \in 0..Clusters /\ p[2] \in DOMAIN made.entries[ClusterAt(d, p)]
  BY <1>1, PlaceIs
<1>3. ClusterAt(d, p) \in DOMAIN made.entries
  BY <1>2, ChainInside DEF ClusterAt
<1>4. p[2] \in 1..Len(made.entries[ClusterAt(d, p)])
  BY <1>2, <1>3, RecordIs
<1> DEFINE x == EntryAt(d, p)
           c == ClusterAt(d, p)
<1>5. x = made.entries[c][p[2]]
  BY DEF EntryAt
<1> HIDE DEF x, c
<1>6. x \in fat_file /\ x.name # <<>>
  BY <1>1, <1>3, <1>4, <1>5, RecordIs DEF x, c
<1>7. IF "DIRECTORY" \in x.attributes THEN x.first_cluster \in made.directories \cup {0}
      ELSE x.first_cluster \notin DOMAIN made.entries
  BY <1>1, <1>2, <1>3, <1>5, DirectoriesAssumption DEF x, c
<1>8. x.first_cluster \in 0..Clusters + 1 /\ x # NULL
  <2>1. x.kind = "file" /\ NULL.kind # "file"
    BY <1>1 DEF x, NULL
  <2> QED  BY <1>6, <2>1 DEF fat_file
<1> QED  BY <1>1, <1>3, <1>4, <1>6, <1>7, <1>8 DEF x, c

\* The first entry with a name is the one that is looked up.
LEMMA LookupIs ==
  ASSUME NEW d, NEW name, NEW p \in Named(d, name), \A q \in Named(d, name) : ~Precedes(q, p)
  PROVE  Lookup(d, name) = EntryAt(d, p)
<1> DEFINE S == Named(d, name)
<1>1. S \subseteq Places(d)
  BY DEF Named, Files
<1>2. \A q \in S : (\A z \in S : ~Precedes(z, q)) => q = p
  BY <1>1, InOrder
<1> HIDE DEF S
<1>3. First(S) = p
  <2>1. p \in S /\ \A q \in S : ~Precedes(q, p)
    BY DEF S
  <2> QED  BY <1>2, <2>1 DEF First
<1>4. S # {}
  BY DEF S
<1> QED  BY <1>3, <1>4 DEF Lookup, S

-----------------------------------------------------------------------------
\* The walk through a directory.

\* lfn_entry holds the parts that come right before the entry to be looked at.
Gathered ==
    IF e <= Len(made.entries[cluster])
    THEN \E m \in 1..e + 1 : StartsRun(cluster, e + 1, m) /\ lfn_entry = Spelled(cluster, e + 1, m)
    ELSE lfn_entry = <<>>

\* The m-th cluster of the directory.
WalkAt(d, m) ==
    /\ m \in 0..Clusters /\ cluster = Follow(made, d)[m]
    /\ pc \in {"entries", "next", "chain"} => cluster < EOC
    /\ pc = "entries" => Gathered

\* The place that comes next.
Here(m) == IF pc = "entries" THEN <<m, e + 1>>
           ELSE IF pc \in {"next", "chain"} THEN <<m + 1, 1>> ELSE <<m, 1>>

LEMMA WalkIs ==
  ASSUME Control, NEW d \in made.directories, NEW m, WalkAt(d, m)
  PROVE  /\ m \in Nat /\ made \in Volumes /\ cluster \in Nat /\ e \in Nat
         /\ cluster < EOC => cluster \in DOMAIN made.entries /\ cluster \in 0..Clusters + 1 /\ m \in 0..Clusters - 1
<1>1. made \in Volumes /\ m \in 0..Clusters /\ cluster = Follow(made, d)[m] /\ e \in Nat
  BY DEF Control, WalkAt
<1>2. cluster \in Nat /\ (cluster < EOC => cluster \in DOMAIN made.entries)
  BY <1>1, ChainInside
<1>3. ASSUME cluster < EOC PROVE cluster \in 0..Clusters + 1
  <2>1. cluster \in 2..Clusters + 1
    BY <1>1, <1>2, <1>3, RecordIs
  <2> QED  BY <2>1, Constants
<1>4. ASSUME cluster < EOC PROVE m # Clusters
  <2>1. Follow(made, d)[Clusters] >= EOC
    BY <1>1, DirectoriesAssumption
  <2> QED  BY <1>1, <1>2, <1>4, <2>1, Constants
<1>5. m \in Nat /\ (m # Clusters => m \in 0..Clusters - 1)
  BY <1>1, Constants
<1> QED  BY <1>1, <1>2, <1>3, <1>4, <1>5

LEMMA WalkKept ==
  ASSUME NEW d, NEW m, UNCHANGED <<made, cluster, pc, e, lfn_entry>>
  PROVE  /\ WalkAt(d, m) => WalkAt(d, m)'
         /\ Here(m)' = Here(m)
BY DEF WalkAt, Here, Gathered, StartsRun, IsLong, Spelled, Follow

LEMMA WalkEnters ==
  ASSUME Control, NEW d \in made.directories, NEW m, WalkAt(d, m), pc \in {"open", "list"},
         cluster < EOC, EnterCluster, UNCHANGED made
  PROVE  WalkAt(d, m)' /\ Here(m)' = Here(m)
<1>1. pc' = "entries" /\ e' = 0 /\ lfn_entry' = <<>> /\ cluster' = cluster /\ made' = made
  BY DEF EnterCluster, ReadClusterThen, Asks
<1>2. Follow(made, d)' = Follow(made, d)
  BY <1>1 DEF Follow
<1>3. m \in 0..Clusters /\ cluster = Follow(made, d)[m]
  BY DEF WalkAt
<1>4. Gathered'
  <2>1. Len(made.entries[cluster]) \in Nat
    BY WalkIs, RecordIs
  <2>2. StartsRun(cluster, 1, 1)
    BY DEF StartsRun
  <2>3. Spelled(cluster, 1, 1) = <<>>
    BY SpelledNothing
  <2>4. StartsRun(cluster, 1, 1)' /\ Spelled(cluster, 1, 1)' = <<>>
    BY <1>1, <2>2, <2>3 DEF StartsRun, IsLong, Spelled
  <2>5. e' <= Len(made.entries[cluster])' /\ e' + 1 = 1 /\ 1 \in 1..e' + 1
    BY <1>1, <2>1
  <2>6. \E k \in 1..e' + 1 : StartsRun(cluster, e + 1, k)' /\ lfn_entry' = Spelled(cluster, e + 1, k)'
    BY <1>1, <2>4, <2>5
  <2> QED  BY <2>5, <2>6 DEF Gathered
<1>5. Here(m) = <<m, 1>>
  BY DEF Here
<1>6. Here(m)' = <<m, 1>>
  BY <1>1 DEF Here
<1>7. WalkAt(d, m)'
  BY <1>1, <1>2, <1>3, <1>4 DEF WalkAt
<1> QED  BY <1>5, <1>6, <1>7

\* What the entries of a cluster do to the name put together.
Skips(x) ==
    /\ UNCHANGED <<made, cluster, pc>> /\ e' = e + 1
    /\ lfn_entry' = IF x.kind = "lfn" THEN fat_read_lfn_entry(x, lfn_entry)
                    ELSE IF x.kind = "deleted" THEN lfn_entry ELSE <<>>

\* What has been read is an entry of the directory, or the end of the buffer, or junk.
IsRead(x) ==
    \/ e < Len(made.entries[cluster]) /\ x = made.entries[cluster][e + 1]
    \/ e >= Len(made.entries[cluster]) /\ x = END
    \/ /\ e >= PerCluster(made.bpb) /\ e < PerCluster(made.bpb) + PastBound
       /\ x = JunkFile

LEMMA NothingLeft ==
  ASSUME made \in Volumes, e \in Nat, cluster \in DOMAIN made.entries, PlainVolume, Gathered,
         e >= Len(made.entries[cluster])
  PROVE  lfn_entry = <<>>
<1> DEFINE n == Len(made.entries[cluster])
<1>1. n \in Nat /\ DOMAIN made.entries[cluster] = 1..n
  BY RecordIs
<1>2. CASE e = n
  <2>1. PICK m \in 1..e + 1 : StartsRun(cluster, e + 1, m) /\ lfn_entry = Spelled(cluster, e + 1, m)
    BY <1>1, <1>2 DEF Gathered
  <2>2. m = e + 1
    <3>1. ASSUME m <= e PROVE FALSE
      <4>1. e \in m..(e + 1) - 1 /\ e \in 1..n
        BY <1>1, <1>2, <3>1
      <4>2. made.entries[cluster][e].kind = "lfn"
        BY <2>1, <4>1 DEF StartsRun, IsLong
      <4>3. e + 1 \in 1..n
        BY <1>1, <4>1, <4>2 DEF PlainVolume
      <4> QED  BY <1>1, <1>2, <4>3
    <3> QED  BY <3>1
  <2> QED  BY <2>1, <2>2, SpelledNothing
<1>3. CASE e > n
  BY <1>1, <1>3 DEF Gathered
<1> QED  BY <1>1, <1>2, <1>3

LEMMA GatheredStep ==
  ASSUME made \in Volumes, e \in Nat, cluster \in DOMAIN made.entries, PlainVolume, Gathered,
         NEW x, IsRead(x), x # END, Skips(x)
  PROVE  Gathered'
<1> DEFINE n == Len(made.entries[cluster])
<1>1. n \in Nat /\ DOMAIN made.entries[cluster] = 1..n /\ n <= PerCluster(made.bpb) /\ PerCluster(made.bpb) \in Nat
  BY RecordIs, Shape
<1>2. /\ e' = e + 1 /\ UNCHANGED <<made, cluster>>
      /\ lfn_entry' = IF x.kind = "lfn" THEN fat_read_lfn_entry(x, lfn_entry)
                      ELSE IF x.kind = "deleted" THEN lfn_entry ELSE <<>>
  BY DEF Skips
<1>5. CASE e < n
  <2>1. x = made.entries[cluster][e + 1]
    BY <1>1, <1>5 DEF IsRead
  <2>2. PICK m \in 1..e + 1 : StartsRun(cluster, e + 1, m) /\ lfn_entry = Spelled(cluster, e + 1, m)
    BY <1>1, <1>5 DEF Gathered
  <2>3. e + 1 \in 1..n /\ (e + 1) + 1 \in Nat
    BY <1>1, <1>5
  <2>4. x.kind \in {"file", "lfn", "deleted"}
    BY <2>1, <2>3, RecordIs
  <2>5. \E k \in 1..(e + 1) + 1 : StartsRun(cluster, (e + 1) + 1, k) /\ lfn_entry' = Spelled(cluster, (e + 1) + 1, k)
    <3>1. CASE x.kind = "lfn"
      <4>1. IsLong(cluster, e + 1)
        BY <2>1, <3>1 DEF IsLong
      <4>2. /\ StartsRun(cluster, (e + 1) + 1, m)
            /\ Spelled(cluster, (e + 1) + 1, m) = <<x.part>> \o Spelled(cluster, e + 1, m)
        BY <2>1, <2>2, <2>3, <4>1, SpelledMore
      <4>3. lfn_entry' = <<x.part>> \o lfn_entry
        BY <1>2, <3>1 DEF fat_read_lfn_entry
      <4>4. m \in 1..(e + 1) + 1
        OBVIOUS
      <4> QED  BY <2>2, <4>2, <4>3, <4>4
    <3>2. CASE x.kind # "lfn"
      <4>1. StartsRun(cluster, (e + 1) + 1, (e + 1) + 1)
        <5>1. ((e + 1) + 1) - 1 = e + 1 /\ ((e + 1) + 1)..((e + 1) + 1) - 1 = {}
          OBVIOUS
        <5> QED  BY <2>1, <3>2, <5>1 DEF StartsRun, IsLong
      <4>2. Spelled(cluster, (e + 1) + 1, (e + 1) + 1) = <<>>
        BY <2>3, SpelledNothing
      <4>3. lfn_entry' = <<>>
        <5>1. CASE x.kind = "file"
          BY <1>2, <5>1
        <5>2. CASE x.kind = "deleted"
          <6>1. m = e + 1
            <7>1. ASSUME m <= e PROVE FALSE
              <8>1. e \in m..(e + 1) - 1 /\ e \in 1..n
                BY <1>1, <1>5, <7>1
              <8>2. made.entries[cluster][e].kind = "lfn"
                BY <2>2, <8>1 DEF StartsRun, IsLong
              <8>3. made.entries[cluster][e + 1].kind \in {"lfn", "file"}
                BY <1>1, <8>1, <8>2 DEF PlainVolume
              <8> QED  BY <2>1, <5>2, <8>3
            <7> QED  BY <7>1
          <6>2. lfn_entry = <<>>
            BY <2>2, <6>1, SpelledNothing
          <6> QED  BY <1>2, <5>2, <6>2
        <5> QED  BY <2>4, <3>2, <5>1, <5>2
      <4>4. (e + 1) + 1 \in 1..(e + 1) + 1
        OBVIOUS
      <4> QED  BY <4>1, <4>2, <4>3, <4>4
    <3> QED  BY <3>1, <3>2
  <2>6. \E k \in 1..e' + 1 : StartsRun(cluster, e + 1, k)' /\ lfn_entry' = Spelled(cluster, e + 1, k)'
    <3>1. PICK k \in 1..(e + 1) + 1 :
             StartsRun(cluster, (e + 1) + 1, k) /\ lfn_entry' = Spelled(cluster, (e + 1) + 1, k)
      BY <2>5
    <3>2. StartsRun(cluster, e + 1, k)'
      BY <1>2, <3>1 DEF StartsRun, IsLong
    <3>3. Spelled(cluster, e + 1, k)' = Spelled(cluster, (e + 1) + 1, k)
      BY <1>2 DEF Spelled
    <3>4. k \in 1..e' + 1
      BY <1>2
    <3> QED  BY <3>1, <3>2, <3>3, <3>4
  <2>7. e' <= Len(made.entries[cluster])'
    BY <1>1, <1>2, <1>5
  <2> QED  BY <2>6, <2>7 DEF Gathered
<1>6. CASE e >= n
  <2>1. x = JunkFile
    BY <1>1, <1>6 DEF IsRead
  <2>2. lfn_entry' = <<>>
    BY <1>2, <2>1 DEF JunkFile
  <2>3. ~(e' <= Len(made.entries[cluster])')
    BY <1>1, <1>2, <1>6
  <2> QED  BY <2>2, <2>3 DEF Gathered
<1> QED  BY <1>1, <1>5, <1>6

LEMMA WalkSkips ==
  ASSUME Control, PlainVolume, NEW d \in made.directories, NEW m, WalkAt(d, m), pc = "entries",
         NEW x, IsRead(x), x # END, Skips(x)
  PROVE  WalkAt(d, m)' /\ Here(m) = <<m, e + 1>> /\ Here(m)' = <<m, (e + 1) + 1>>
<1>1. made' = made /\ cluster' = cluster /\ pc' = "entries" /\ e' = e + 1
  BY DEF Skips
<1>2. cluster < EOC /\ Gathered /\ m \in 0..Clusters /\ cluster = Follow(made, d)[m]
  BY DEF WalkAt
<1>3. made \in Volumes /\ e \in Nat /\ cluster \in DOMAIN made.entries
  BY <1>2, WalkIs
<1>4. Gathered'
  BY <1>2, <1>3, GatheredStep
<1>5. Follow(made, d)' = Follow(made, d)
  BY <1>1 DEF Follow
<1>6. WalkAt(d, m)'
  BY <1>1, <1>2, <1>4, <1>5 DEF WalkAt
<1>7. Here(m)' = <<m, e' + 1>>
  BY <1>1 DEF Here
<1>8. Here(m) = <<m, e + 1>>
  BY DEF Here
<1> QED  BY <1>1, <1>6, <1>7, <1>8

LEMMA WalkTurns ==
  ASSUME NEW d, NEW m, WalkAt(d, m), pc = "entries", EntriesEnd, UNCHANGED made
  PROVE  WalkAt(d, m)' /\ Here(m) = <<m, e + 1>> /\ Here(m)' = <<m + 1, 1>>
<1>1. cluster' = cluster /\ pc' = "next"
  BY DEF EntriesEnd
<1>2. Follow(made, d)' = Follow(made, d)
  BY DEF Follow
<1>3. WalkAt(d, m)'
  BY <1>1, <1>2 DEF WalkAt
<1> QED  BY <1>1, <1>3 DEF Here

LEMMA WalkAsks ==
  ASSUME NEW d, NEW m, WalkAt(d, m), NextCluster
  PROVE  WalkAt(d, m)' /\ Here(m) = <<m + 1, 1>> /\ Here(m)' = Here(m)
<1>1. cluster' = cluster /\ made' = made /\ pc = "next" /\ pc' = "chain"
  BY DEF NextCluster, Asks, callVars
<1>2. Follow(made, d)' = Follow(made, d)
  BY <1>1 DEF Follow
<1>3. WalkAt(d, m)'
  BY <1>1, <1>2 DEF WalkAt
<1> QED  BY <1>1, <1>3 DEF Here

LEMMA FatRead ==
  ASSUME Control, Sound, Located, Asked, ChainRead, answer.ok, cluster \in 0..Clusters + 1
  PROVE  cluster' = made.fat[cluster]
<1>1. pc = "chain" /\ call = NoCall
  BY DEF ChainRead, Answered
<1>2. /\ volume = made.bpb /\ made \in Volumes /\ cluster \in Nat
      /\ Reads(Partition.start_sector + FatSector(volume, cluster), 1)
  BY <1>1 DEF Control, Located, Asked
<1> DEFINE start == Partition.start_sector + FatSector(made.bpb, cluster)
           b == cluster % SectorSize
<1>3. start \in Nat /\ b \in Cell
  BY <1>2, FatSectorIs
<1>4. start \in Sector /\ answer.data[0] = disk[start]
  <2>1. start + 0 \in Sector /\ answer.data[0] = disk[start + 0]
    <3> HIDE DEF start
    <3>1. Reads(start, 1)
      BY <1>2 DEF start
    <3> QED  BY <1>1, <1>3, <3>1, ReadData
  <2>2. start + 0 = start
    <3> HIDE DEF start
    <3> QED  BY <1>3
  <2> QED  BY <2>1, <2>2
<1>5. DiskOf(made)[start][b] = [kind |-> "next", cluster |-> made.fat[cluster]]
  BY <1>2, <1>4, FatPlace
<1>6. disk[start][b] = [kind |-> "next", cluster |-> made.fat[cluster]]
  BY <1>3, <1>4, <1>5 DEF Sound
<1>7. cluster' \in NextOf(answer.data[0][b])
  BY DEF ChainRead
<1> HIDE DEF b
<1> QED  BY <1>4, <1>6, <1>7 DEF NextOf

LEMMA WalkLeads ==
  ASSUME Control, Sound, Located, Asked, NEW d \in made.directories, NEW m, WalkAt(d, m),
         ChainRead, answer.ok, op.kind \in {"open", "list"}
  PROVE  WalkAt(d, m + 1)' /\ Here(m) = <<m + 1, 1>> /\ Here(m + 1)' = Here(m)
<1>1. pc = "chain" /\ pc' = op.kind /\ made' = made
  BY DEF ChainRead, Answered
<1>2. cluster < EOC /\ cluster = Follow(made, d)[m]
  BY <1>1 DEF WalkAt
<1>3. cluster \in 0..Clusters + 1 /\ m \in 0..Clusters - 1
  BY <1>2, WalkIs
<1>4. cluster' = made.fat[cluster]
  BY <1>3, FatRead
<1>5. Follow(made, d)[m + 1] = made.fat[cluster]
  BY <1>2, <1>3, FollowIs
<1>6. Follow(made, d)' = Follow(made, d)
  BY <1>1 DEF Follow
<1>7. m + 1 \in 0..Clusters
  BY <1>3, Constants
<1>8. WalkAt(d, m + 1)'
  BY <1>1, <1>4, <1>5, <1>6, <1>7 DEF WalkAt
<1>9. Here(m) = <<m + 1, 1>> /\ Here(m + 1)' = <<m + 1, 1>>
  BY <1>1 DEF Here
<1> QED  BY <1>8, <1>9

LEMMA ReadingIs ==
  ASSUME IInv, op.kind \in {"open", "list"}, pc = "entries", call = NoCall, answer.ok
  PROVE  Reading
<1>1. ~Damaged
  BY DEF Damaged
<1>2. Control /\ Sound /\ Located /\ Asked
  BY <1>1 DEF IInv
<1> QED  BY <1>2 DEF Control, Located, Asked, Reading

\* The name put together is the name of the entry.
LEMMA NameIs ==
  ASSUME Control, PlainVolume, NEW d \in made.directories, NEW m, WalkAt(d, m), pc = "entries",
         e < Len(made.entries[cluster]), made.entries[cluster][e + 1].kind = "file"
  PROVE  /\ <<m, e + 1>> \in Files(d) /\ EntryAt(d, <<m, e + 1>>) = made.entries[cluster][e + 1]
         /\ NameOf(made.entries[cluster][e + 1]) = TrueName(d, <<m, e + 1>>)
         /\ TrueName(d, <<m, e + 1>>) # <<>>
<1> DEFINE p == <<m, e + 1>>
           x == made.entries[cluster][e + 1]
           n == Len(made.entries[cluster])
<1>1. cluster < EOC /\ Gathered /\ cluster = Follow(made, d)[m]
  BY DEF WalkAt
<1>2. /\ made \in Volumes /\ e \in Nat /\ cluster \in DOMAIN made.entries
      /\ m \in 0..Clusters - 1
  BY <1>1, WalkIs
<1>3. n \in Nat /\ DOMAIN made.entries[cluster] = 1..n /\ n <= PerCluster(made.bpb) /\ PerCluster(made.bpb) \in Nat
  BY <1>2, RecordIs, Shape
<1>4. e + 1 \in 1..n /\ e + 1 \in 1..PerCluster(made.bpb)
  BY <1>2, <1>3
<1>5. p \in (0..Clusters - 1) \X (1..PerCluster(made.bpb)) /\ p[1] = m /\ p[2] = e + 1
  BY <1>2, <1>4
<1> HIDE DEF p
<1>6. ClusterAt(d, p) = cluster /\ EntryAt(d, p) = x
  BY <1>1, <1>5 DEF ClusterAt, EntryAt
<1>7. p \in Places(d)
  BY <1>1, <1>3, <1>4, <1>5 DEF Places
<1>8. p \in Files(d)
  BY <1>6, <1>7 DEF Files
<1>9. PICK k \in 1..e + 1 : StartsRun(cluster, e + 1, k) /\ lfn_entry = Spelled(cluster, e + 1, k)
  <2>1. e <= Len(made.entries[cluster])
    BY <1>2, <1>3
  <2> QED  BY <1>1, <2>1 DEF Gathered
<1>10. LongName(cluster, e + 1) = lfn_entry
  BY <1>2, <1>9, LongNameIs
<1>11. TrueName(d, p) = IF lfn_entry = <<>> THEN x.name ELSE lfn_entry
  BY <1>5, <1>6, <1>10 DEF TrueName
<1>12. x.name # <<>>
  BY <1>2, <1>4, RecordIs
<1>13. ASSUME lfn_entry = <<>> PROVE ShortName(x) = x.name
  <2>1. k = e + 1
    <3>1. /\ Len(Spelled(cluster, e + 1, k)) = (e + 1) - k
      <4>1. e + 1 \in 1..Len(made.entries[cluster]) + 1
        BY <1>3, <1>4
      <4> QED  BY <1>2, <1>9, <4>1, SpelledIs
    <3>2. Len(<<>>) = 0
      OBVIOUS
    <3> QED  BY <1>2, <1>9, <1>13, <3>1, <3>2
  <2>2. ~(e + 1 > 1 /\ IsLong(cluster, (e + 1) - 1))
    BY <1>9, <2>1 DEF StartsRun
  <2>3. x.extension = 0 \/ ReadsWhole(x)
    BY <1>2, <1>3, <1>4, <2>2 DEF PlainVolume
  <2> QED  BY <2>3 DEF ShortName
<1>14. NameOf(x) = TrueName(d, p)
  BY <1>11, <1>13 DEF NameOf
<1> QED  BY <1>6, <1>8, <1>11, <1>12, <1>14 DEF p


-----------------------------------------------------------------------------
\* The volume does not change, and nothing that is read off it.
LEMMA LookupKept ==
  ASSUME UNCHANGED made
  PROVE  /\ Root' = Root /\ PlainVolume' = PlainVolume
         /\ \A d : Follow(made, d)' = Follow(made, d) /\ Places(d)' = Places(d) /\ Files(d)' = Files(d)
         /\ \A d, p : EntryAt(d, p)' = EntryAt(d, p) /\ TrueName(d, p)' = TrueName(d, p)
         /\ \A d, name : Named(d, name)' = Named(d, name) /\ Lookup(d, name)' = Lookup(d, name)
<1>1. Root' = Root /\ PlainVolume' = PlainVolume
  BY DEF Root, PlainVolume, IsLong
<1>2. \A d : Follow(made, d)' = Follow(made, d)
  BY DEF Follow
<1>3. \A d : Places(d)' = Places(d)
  BY <1>2 DEF Places
<1>4. \A d, p : EntryAt(d, p)' = EntryAt(d, p) /\ ClusterAt(d, p)' = ClusterAt(d, p)
  BY <1>2 DEF EntryAt, ClusterAt
<1>5. \A c, n : LongName(c, n)' = LongName(c, n)
  BY Zenon DEF LongName, StartsRun, IsLong, Spelled
<1>6. \A d, p : TrueName(d, p)' = TrueName(d, p)
  BY <1>4, <1>5 DEF TrueName
<1>7. \A d : Files(d)' = Files(d)
  BY <1>3, <1>4 DEF Files
<1>8. \A d, name : Named(d, name)' = Named(d, name)
  BY <1>4, <1>6, <1>7 DEF Named
<1>9. \A d, name : Lookup(d, name)' = Lookup(d, name)
  BY <1>2, <1>8 DEF Lookup, EntryAt, ClusterAt
<1> QED  BY <1>1, <1>2, <1>3, <1>4, <1>6, <1>7, <1>8, <1>9

LEMMA ReachedKept ==
  ASSUME UNCHANGED <<made, op>>
  PROVE  /\ Reached(op.path)' = Reached(op.path)
         /\ PastParent(op.path)' <=> PastParent(op.path)
<1>1. \A f, name : Onward(f, name)' = Onward(f, name)
  BY LookupKept DEF Onward, IsDirectory
<1>2. Reached(op.path)' = Reached(op.path)
  BY <1>1, LookupKept DEF Reached
<1>3. PastParent(op.path)' <=> PastParent(op.path)
  BY <1>2 DEF PastParent, IsDirectory
<1> QED  BY <1>2, <1>3


\* Of the places, an entry that is read leaves behind the one that it is at, the end of a
\* cluster none.
Passes(p, m) == Precedes(p, <<m, (e + 1) + 1>>) => p = <<m, e + 1>> /\ e < Len(made.entries[cluster])

LEMMA NextPlace ==
  ASSUME Control, NEW d \in made.directories, NEW m, WalkAt(d, m), pc = "entries", NEW x, IsRead(x),
         NEW p \in Places(d), ~Precedes(p, <<m, e + 1>>)
  PROVE  IF x = END THEN ~Precedes(p, <<m + 1, 1>>) ELSE Passes(p, m)
<1> DEFINE n == Len(made.entries[cluster])
<1>1. cluster < EOC /\ cluster = Follow(made, d)[m]
  BY DEF WalkAt
<1>2. m \in Nat /\ made \in Volumes /\ e \in Nat /\ cluster \in DOMAIN made.entries
  BY <1>1, WalkIs
<1>3. p = <<p[1], p[2]>> /\ p[1] \in Nat /\ p[2] \in Nat /\ p[2] > 0 /\ p[2] \in DOMAIN made.entries[ClusterAt(d, p)]
  BY PlaceIs
<1>4. p[1] = m => p[2] \in 1..n
  BY <1>1, <1>2, <1>3, RecordIs DEF ClusterAt
<1>5. n \in Nat
  BY <1>2, RecordIs
<1>6. x = END => e >= n
  <2>1. ASSUME e < n PROVE x # END
    <3>1. e + 1 \in 1..n
      BY <1>2, <1>5, <2>1
    <3>2. x = made.entries[cluster][e + 1]
      BY <1>2, <1>5, <2>1, RecordIs, Shape DEF IsRead
    <3>3. x.kind \in {"file", "lfn", "deleted"}
      BY <1>2, <3>1, <3>2, RecordIs
    <3> QED  BY <3>3 DEF END
  <2> QED  BY <1>2, <1>5, <2>1
<1> HIDE DEF n
<1>7. Precedes(p, <<m, (e + 1) + 1>>) => p = <<m, e + 1>> /\ e < n
  BY <1>2, <1>3, <1>4, <1>5 DEF Precedes
<1>8. e >= n => ~Precedes(p, <<m + 1, 1>>)
  BY <1>2, <1>3, <1>4, <1>5 DEF Precedes
<1> QED  BY <1>6, <1>7, <1>8 DEF n, Passes

LEMMA NextEntry ==
  ASSUME Control, NEW d \in made.directories, NEW m, WalkAt(d, m), pc = "entries", NEW x, IsRead(x), x # END,
         NEW p \in Places(d), ~Precedes(p, <<m, e + 1>>)
  PROVE  Passes(p, m)
BY NextPlace

\* Behind the chain of a directory there is no place.
LEMMA AllBehind ==
  ASSUME Control, NEW d \in made.directories, NEW m, WalkAt(d, m), pc \in {"open", "list"},
         cluster >= EOC, NEW p \in Places(d)
  PROVE  Precedes(p, Here(m))
<1>1. m \in 0..Clusters /\ cluster = Follow(made, d)[m] /\ made \in Volumes
  BY DEF WalkAt, Control
<1>2. p[1] \in 0..Clusters /\ p[1] \in Nat /\ Follow(made, d)[p[1]] < EOC
  BY PlaceIs DEF ClusterAt
<1>3. ASSUME ~(p[1] < m) PROVE FALSE
  <2>1. p[1] \in m..Clusters
    BY <1>1, <1>2, <1>3, Constants
  <2>2. Follow(made, d)[p[1]] >= EOC /\ Follow(made, d)[p[1]] \in Nat
    BY <1>1, <1>2, <2>1, ChainOver, ChainInside
  <2> QED  BY <1>2, <2>2, Constants
<1>4. Here(m) = <<m, 1>>
  BY DEF Here
<1> QED  BY <1>3, <1>4 DEF Precedes

-----------------------------------------------------------------------------
\* The search along a path.
Searching == /\ op.kind = "open" /\ pc \in {"open", "entries", "next", "chain"}
             /\ failures = {} /\ PlainVolume /\ ~PastParent(op.path)

\* None of the entries before the one that comes next has the name.
InDir(d, name) ==
    \E m \in 0..Clusters : WalkAt(d, m) /\ \A p \in Named(d, name) : ~Precedes(p, Here(m))

\* Something that is no directory is searched: where no name can be found.
Stray ==
    /\ cluster >= EOC \/ cluster \in (0..Clusters + 1) \ DOMAIN made.entries
    /\ pc \in {"entries", "next", "chain"} => cluster < EOC
    /\ pc = "entries" => lfn_entry = <<>>

At(k) == Reached(op.path)[k]
Onto(k) == IF IsDirectory(At(k))
           THEN At(k).first_cluster \in made.directories /\ InDir(At(k).first_cluster, op.path[k + 1])
           ELSE Stray

\* As many names of the path have led to something, and the search for the next is on.
OnTheWay ==
    /\ i \in 0..Len(op.path) /\ At(i) # NULL
    /\ IF op.path = <<>> THEN i = 0 /\ pc = "open" ELSE i < Len(op.path) /\ Onto(i)

LEMMA PathIs ==
  ASSUME Control, op.kind = "open"
  PROVE  /\ Len(op.path) \in Nat /\ \A k \in 1..Len(op.path) : op.path[k] # <<>>
         /\ op.path = <<>> <=> Len(op.path) = 0
<1>1. op.path \in Seq(Seq(STRING) \ {<<>>})
  BY FatAssumption DEF Control
<1> QED  BY <1>1

\* What the search finds is what the path leads to.
LEMMA FoundIs ==
  ASSUME IInv, Searching, OnTheWay, pc = "entries", call = NoCall, answer.ok,
         NEW x \in EntriesAt(answer.data), x.kind = "file", Matches(x)
  PROVE  At(i + 1) = x /\ x # NULL /\ i + 1 \in 1..Len(op.path)
<1> DEFINE name == op.path[i + 1]
<1>1. Control /\ op.kind = "open" /\ PlainVolume /\ Reading
  <2>1. Reading
    BY ReadingIs DEF Searching
  <2> QED  BY <2>1 DEF IInv, Searching
<1>2. Len(op.path) \in Nat /\ i \in 0..Len(op.path) - 1 /\ i + 1 \in 1..Len(op.path) /\ Onto(i)
  BY <1>1, PathIs DEF OnTheWay
<1>3. name # <<>>
  BY <1>1, <1>2, PathIs
<1>4. NameOf(x) = name /\ "VOLUME_ID" \notin x.attributes
  BY DEF Matches
<1>5. At(i + 1) = Onward(At(i), name)
  BY <1>2, ReachedIs DEF At
<1> HIDE DEF name
<1>6. lfn_entry = <<>> /\ x = JunkFile => NameOf(x) = <<>>
  BY DEF NameOf, ShortName, JunkFile
<1>7. CASE IsDirectory(At(i))
  <2> DEFINE d == At(i).first_cluster
  <2>1. d \in made.directories /\ InDir(d, name)
    BY <1>2, <1>7 DEF Onto, name
  <2>2. PICK m \in 0..Clusters : WalkAt(d, m) /\ \A p \in Named(d, name) : ~Precedes(p, Here(m))
    BY <2>1 DEF InDir
  <2>3. At(i + 1) = Lookup(d, name)
    BY <1>1, <1>5, <1>7, <2>1, FirstIs DEF Onward, Control
  <2> HIDE DEF d
  <2>4. cluster < EOC /\ Gathered
    BY <2>2 DEF WalkAt
  <2>5. made \in Volumes /\ cluster \in DOMAIN made.entries /\ e \in Nat
    BY <1>1, <2>1, <2>2, <2>4, WalkIs
  <2>6. IsRead(x)
    BY <1>1, <2>5, EntriesRead DEF IsRead
  <2>7. Len(made.entries[cluster]) \in Nat /\ Len(made.entries[cluster]) <= PerCluster(made.bpb)
        /\ PerCluster(made.bpb) \in Nat
    BY <2>5, RecordIs, Shape
  <2>8. e < Len(made.entries[cluster]) /\ x = made.entries[cluster][e + 1]
    <3>1. ASSUME x = JunkFile, e >= PerCluster(made.bpb) PROVE FALSE
      <4>1. e >= Len(made.entries[cluster])
        BY <2>5, <2>7, <3>1
      <4>2. lfn_entry = <<>>
        BY <1>1, <2>4, <2>5, <4>1, NothingLeft
      <4> QED  BY <1>3, <1>4, <1>6, <3>1, <4>2
    <3>2. x # END
      BY DEF END
    <3> QED  BY <2>6, <3>1, <3>2 DEF IsRead
  <2> DEFINE p == <<m, e + 1>>
  <2>9. p \in Files(d) /\ EntryAt(d, p) = x /\ NameOf(x) = TrueName(d, p)
    BY <1>1, <2>1, <2>2, <2>8, NameIs
  <2>10. Here(m) = p
    BY DEF Here
  <2> HIDE DEF p
  <2>11. p \in Named(d, name)
    BY <1>4, <2>9 DEF Named
  <2>12. Lookup(d, name) = x
    BY <2>2, <2>9, <2>10, <2>11, LookupIs
  <2>13. x # NULL
    BY DEF NULL
  <2> QED  BY <1>2, <2>3, <2>12, <2>13
<1>8. CASE ~IsDirectory(At(i))
  <2>1. Stray
    BY <1>2, <1>8 DEF Onto
  <2>2. cluster \in (0..Clusters + 1) \ DOMAIN made.entries /\ lfn_entry = <<>>
    BY <1>1, <2>1, Constants DEF Stray, Reading
  <2>3. x = JunkFile
    BY <1>1, <2>2, StrayRead DEF END
  <2> QED  BY <1>3, <1>4, <1>6, <2>2, <2>3
<1> QED  BY <1>7, <1>8


\* A search begins before all entries of a directory.
LEMMA WalkBegins ==
  ASSUME NEW d, UNCHANGED made, cluster' = d, pc' \in {"open", "list"}
  PROVE  WalkAt(d, 0)' /\ Here(0)' = <<0, 1>> /\ \A p \in Places(d) : ~Precedes(p, <<0, 1>>)
<1>1. Follow(made, d)[0] = d /\ Follow(made, d)' = Follow(made, d) /\ 0 \in 0..Clusters
  BY FollowIs, LookupKept, Constants
<1>2. WalkAt(d, 0)'
  BY <1>1 DEF WalkAt
<1>3. Here(0)' = <<0, 1>>
  BY DEF Here
<1>4. \A p \in Places(d) : p[1] \in Nat /\ p[2] \in Nat \ {0}
  BY PlaceIs
<1>5. \A p \in Places(d) : ~Precedes(p, <<0, 1>>)
  BY <1>4 DEF Precedes
<1> QED  BY <1>2, <1>3, <1>5

LEMMA OnTheWayAt ==
  ASSUME UNCHANGED <<made, op>>, NEW k, i' = k, k \in 0..Len(op.path), op.path # <<>>, k < Len(op.path),
         At(k) # NULL,
         IsDirectory(At(k)) =>
            \E d \in made.directories :
                /\ d = At(k).first_cluster
                /\ \E m \in 0..Clusters :
                      WalkAt(d, m)' /\ \A p \in Named(d, op.path[k + 1]) : ~Precedes(p, Here(m)'),
         ~IsDirectory(At(k)) => Stray'
  PROVE  OnTheWay'
<1>1. At(k)' = At(k)
  BY ReachedKept DEF At
<1>2. CASE IsDirectory(At(k))
  <2>1. PICK d \in made.directories :
                /\ d = At(k).first_cluster
                /\ \E m \in 0..Clusters :
                      WalkAt(d, m)' /\ \A p \in Named(d, op.path[k + 1]) : ~Precedes(p, Here(m)')
    BY <1>2
  <2>2. PICK m \in 0..Clusters : WalkAt(d, m)' /\ \A p \in Named(d, op.path[k + 1]) : ~Precedes(p, Here(m)')
    BY <2>1
  <2>3. Named(d, op.path[k + 1])' = Named(d, op.path[k + 1])
    BY LookupKept
  <2>4. InDir(d, op.path[k + 1])'
    BY <2>2, <2>3 DEF InDir
  <2>5. IsDirectory(At(k))' /\ At(k)'.first_cluster = d /\ d \in made'.directories
    BY <1>1, <1>2, <2>1 DEF IsDirectory
  <2>6. Onto(k)'
    BY <2>4, <2>5 DEF Onto
  <2> QED  BY <1>1, <2>6 DEF OnTheWay, Onto
<1>3. CASE ~IsDirectory(At(k))
  <2>1. ~IsDirectory(At(k))'
    BY <1>1, <1>3 DEF IsDirectory
  <2>2. Onto(k)'
    BY <1>3, <2>1 DEF Onto
  <2> QED  BY <1>1, <2>2 DEF OnTheWay
<1> QED  BY <1>2, <1>3


\* The search where it is: in a directory, or in something else.
LEMMA WayIs ==
  ASSUME Control, Searching, OnTheWay, op.path # <<>>
  PROVE  /\ i \in 0..Len(op.path) /\ i < Len(op.path) /\ Len(op.path) \in Nat /\ At(i) # NULL
         /\ made \in Volumes /\ i + 1 \in 1..Len(op.path)
         /\ IsDirectory(At(i)) =>
               \E d \in made.directories :
                  /\ d = At(i).first_cluster
                  /\ \E m \in 0..Clusters :
                        WalkAt(d, m) /\ \A p \in Named(d, op.path[i + 1]) : ~Precedes(p, Here(m))
         /\ ~IsDirectory(At(i)) => Stray
<1>1. Len(op.path) \in Nat
  BY PathIs DEF Searching
<1>2. i \in 0..Len(op.path) /\ i < Len(op.path) /\ At(i) # NULL /\ Onto(i)
  BY DEF OnTheWay
<1>3. i + 1 \in 1..Len(op.path)
  BY <1>1, <1>2
<1> QED  BY <1>1, <1>2, <1>3 DEF Onto, InDir, Control

LEMMA SearchBegins ==
  ASSUME IInv, NEW path \in Paths, Open(path), op'.path = path, UNCHANGED made
  PROVE  OnTheWay'
<1>1. /\ volume = made.bpb /\ made \in Volumes
  <2>1. pc = "idle" /\ ~Damaged
    BY DEF Open, Begins, Damaged
  <2> QED  BY <2>1 DEF IInv, Located, Control
<1>2. PICK d : d = made.bpb.extended.root_cluster
  OBVIOUS
<1>3. cluster' = d /\ pc' = "open" /\ i' = 0
  BY <1>1, <1>2 DEF Open, Begins
<1>4. d \in made.directories
  BY <1>1, <1>2, DirectoriesAssumption
<1>5. Len(path) \in Nat /\ (path = <<>> <=> Len(path) = 0)
  <2>1. path \in Seq(Seq(STRING) \ {<<>>})
    BY FatAssumption
  <2> QED  BY <2>1
<1>6. Reached(path)[0] = Root
  BY <1>5, ReachedIs
<1>7. Reached(op.path)' = Reached(path)
  <2>1. \A f, name : Onward(f, name)' = Onward(f, name)
    BY LookupKept DEF Onward, IsDirectory
  <2> QED  BY <2>1, LookupKept DEF Reached
<1>8. At(0)' = Root
  BY <1>6, <1>7 DEF At
<1>9. Root # NULL /\ IsDirectory(Root) /\ Root.first_cluster = d
  BY <1>2, RootIs
<1>10. WalkAt(d, 0)' /\ Here(0)' = <<0, 1>> /\ \A p \in Places(d) : ~Precedes(p, <<0, 1>>)
  BY <1>3, WalkBegins
<1>11. \A p \in Named(d, path[1])' : ~Precedes(p, Here(0)')
  <2>1. Named(d, path[1])' = Named(d, path[1])
    BY LookupKept
  <2>2. Named(d, path[1]) \subseteq Places(d)
    BY DEF Named, Files
  <2> QED  BY <1>10, <2>1, <2>2
<1>12. 0 \in 0..Clusters /\ 0 \in 0..Len(path)
  BY <1>5, Constants
<1>13. InDir(d, path[1])'
  BY <1>10, <1>11, <1>12 DEF InDir
<1>14. Onto(0)'
  BY <1>3, <1>4, <1>8, <1>9, <1>13 DEF Onto, IsDirectory
<1>15. CASE path = <<>>
  BY <1>3, <1>8, <1>9, <1>12, <1>15 DEF OnTheWay
<1>16. CASE path # <<>>
  BY <1>3, <1>5, <1>8, <1>9, <1>12, <1>14, <1>16 DEF OnTheWay
<1> QED  BY <1>15, <1>16

\* The next name is searched for in what has been found.
LEMMA SearchLeads ==
  ASSUME IInv, Searching, OnTheWay, op.path # <<>>, pc = "entries", call = NoCall, answer.ok,
         NEW x \in EntriesAt(answer.data), x.kind = "file", Matches(x), Found(x), i + 1 # Len(op.path)
  PROVE  OnTheWay'
<1>1. Control
  BY DEF IInv
<1>2. At(i + 1) = x /\ x # NULL /\ i + 1 \in 1..Len(op.path)
  BY FoundIs
<1>3. /\ i' = i + 1 /\ cluster' = x.first_cluster /\ pc' = "open"
      /\ UNCHANGED <<made, op>>
  BY DEF Found
<1>4. Len(op.path) \in Nat /\ i \in Nat
  BY <1>1, WayIs
<1>5. PICK k : k = i + 1
  OBVIOUS
<1>6. k \in 1..Len(op.path) - 1 /\ k \in 0..Len(op.path) /\ k < Len(op.path) /\ At(k) = x
  BY <1>2, <1>4, <1>5
<1>7. Entry(made, x)
  <2>1. Reading
    BY ReadingIs DEF Searching
  <2> QED  BY <2>1, EntryFound DEF Reading
<1>8. ASSUME IsDirectory(x)
      PROVE  \E d \in made.directories :
                /\ d = x.first_cluster
                /\ \E m \in 0..Clusters :
                      WalkAt(d, m)' /\ \A p \in Named(d, op.path[k + 1]) : ~Precedes(p, Here(m)')
  <2>1. x.first_cluster # 0
    BY <1>6, <1>8 DEF Searching, PastParent, At
  <2>2. PICK d : d = x.first_cluster
    OBVIOUS
  <2>3. d \in made.directories
    BY <1>7, <1>8, <2>1, <2>2 DEF Entry, IsDirectory
  <2>4. WalkAt(d, 0)' /\ Here(0)' = <<0, 1>> /\ \A p \in Places(d) : ~Precedes(p, <<0, 1>>)
    BY <1>3, <2>2, WalkBegins
  <2>5. Named(d, op.path[k + 1]) \subseteq Places(d) /\ 0 \in 0..Clusters
    BY Constants DEF Named, Files
  <2> QED  BY <2>2, <2>3, <2>4, <2>5
<1>9. ASSUME ~IsDirectory(x) PROVE Stray'
  <2>1. x \in fat_file /\ "DIRECTORY" \notin x.attributes
    BY <1>2, <1>7, <1>9 DEF IsDirectory, Entry
  <2>2. x.first_cluster \in (0..Clusters + 1) \ DOMAIN made.entries
    BY <1>7, <2>1 DEF Entry, fat_file
  <2> QED  BY <1>3, <2>2 DEF Stray
<1>10. /\ IsDirectory(At(k)) =>
            \E d \in made.directories :
                /\ d = At(k).first_cluster
                /\ \E m \in 0..Clusters :
                      WalkAt(d, m)' /\ \A p \in Named(d, op.path[k + 1]) : ~Precedes(p, Here(m)')
       /\ ~IsDirectory(At(k)) => Stray'
  BY <1>6, <1>8, <1>9
<1>11. i' = k /\ At(k) # NULL /\ UNCHANGED <<made, op>>
  BY <1>2, <1>3, <1>5, <1>6
<1> QED  BY <1>6, <1>10, <1>11, OnTheWayAt


\* The search goes over an entry that it does not take, or to the end of the cluster.
LEMMA SearchPasses ==
  ASSUME IInv, Searching, OnTheWay, op.path # <<>>, pc = "entries", call = NoCall, answer.ok,
         NEW x \in EntriesAt(answer.data), ~(x.kind = "file" /\ Matches(x)),
         UNCHANGED <<made, op>>,
         IF x = END THEN EntriesEnd ELSE SkipEntry(x)
  PROVE  OnTheWay'
<1>1. Control /\ Reading /\ PlainVolume
  <2>1. Reading
    BY ReadingIs DEF Searching
  <2> QED  BY <2>1 DEF IInv, Searching
<1>2. /\ i \in 0..Len(op.path) /\ i < Len(op.path) /\ Len(op.path) \in Nat /\ At(i) # NULL
      /\ made \in Volumes
  BY <1>1, WayIs
<1>3. PICK k : k = i
  OBVIOUS
<1>4. i' = k /\ cluster' = cluster /\ (x # END => Skips(x) /\ SkipEntry(x))
  BY <1>3 DEF EntriesEnd, SkipEntry, Skips
<1>5. ASSUME IsDirectory(At(k))
      PROVE  \E d \in made.directories :
                /\ d = At(k).first_cluster
                /\ \E m \in 0..Clusters :
                      WalkAt(d, m)' /\ \A p \in Named(d, op.path[k + 1]) : ~Precedes(p, Here(m)')
  <2>1. PICK d \in made.directories :
           /\ d = At(k).first_cluster
           /\ \E m \in 0..Clusters :
                 WalkAt(d, m) /\ \A p \in Named(d, op.path[k + 1]) : ~Precedes(p, Here(m))
    BY <1>1, <1>3, <1>5, WayIs
  <2>2. PICK m \in 0..Clusters :
           WalkAt(d, m) /\ \A p \in Named(d, op.path[k + 1]) : ~Precedes(p, Here(m))
    BY <2>1
  <2>3. cluster < EOC
    BY <2>2 DEF WalkAt
  <2>4. cluster \in DOMAIN made.entries
    BY <1>1, <2>2, <2>3, WalkIs
  <2>5. IsRead(x)
    BY <1>1, <2>4, EntriesRead DEF IsRead
  <2>6. Here(m) = <<m, e + 1>>
    BY DEF Here
  <2>7. \A p \in Named(d, op.path[k + 1]) : p \in Places(d) /\ ~Precedes(p, <<m, e + 1>>)
    BY <2>2, <2>6 DEF Named, Files
  <2>8. CASE x # END
    <3>1. WalkAt(d, m)' /\ Here(m)' = <<m, (e + 1) + 1>>
      BY <1>1, <1>4, <2>2, <2>5, <2>8, WalkSkips
    <3>2. ASSUME NEW p \in Named(d, op.path[k + 1]), Precedes(p, <<m, (e + 1) + 1>>) PROVE FALSE
      <4>1. p = <<m, e + 1>> /\ e < Len(made.entries[cluster])
        <5>1. \A y \in Places(d) : ~Precedes(y, <<m, e + 1>>) => Passes(y, m)
          BY <1>1, <2>2, <2>5, <2>8, NextEntry
        <5> QED  BY <2>7, <3>2, <5>1 DEF Passes
      <4>2. /\ p \in Files(d) /\ TrueName(d, p) = op.path[k + 1]
            /\ "VOLUME_ID" \notin EntryAt(d, p).attributes /\ EntryAt(d, p).kind = "file"
        BY DEF Named, Files
      <4>3. x = made.entries[cluster][e + 1]
        <5>1. Len(made.entries[cluster]) <= PerCluster(made.bpb) /\ Len(made.entries[cluster]) \in Nat
              /\ PerCluster(made.bpb) \in Nat /\ e \in Nat
          BY <1>1, <1>2, <2>4, RecordIs, Shape DEF Reading
        <5> QED  BY <2>5, <4>1, <5>1 DEF IsRead
      <4>4. EntryAt(d, p) = x
        <5>1. cluster = Follow(made, d)[m]
          BY <2>2 DEF WalkAt
        <5> QED  BY <4>1, <4>3, <5>1 DEF EntryAt, ClusterAt
      <4>5. NameOf(x) = TrueName(d, p)
        BY <1>1, <2>2, <4>1, <4>2, <4>3, <4>4, NameIs
      <4> QED  BY <1>3, <4>2, <4>4, <4>5 DEF Matches
    <3> QED  BY <2>1, <3>1, <3>2
  <2>9. CASE x = END
    <3>1. EntriesEnd
      BY <2>9
    <3>2. WalkAt(d, m)' /\ Here(m)' = <<m + 1, 1>>
      BY <2>2, <3>1, WalkTurns
    <3>3. \A p \in Named(d, op.path[k + 1]) : ~Precedes(p, <<m + 1, 1>>)
      BY <1>1, <2>2, <2>5, <2>7, <2>9, NextPlace
    <3> QED  BY <2>1, <3>2, <3>3
  <2> QED  BY <2>8, <2>9
<1>6. ASSUME ~IsDirectory(At(k)) PROVE Stray'
  <2>1. Stray
    BY <1>1, <1>3, <1>6, WayIs
  <2>2. cluster \in (0..Clusters + 1) \ DOMAIN made.entries /\ cluster < EOC /\ lfn_entry = <<>>
    BY <1>1, <2>1, Constants DEF Stray, Reading
  <2>3. x \in {END, JunkFile}
    BY <1>1, <2>2, StrayRead
  <2>4. CASE x = END
    <3>1. cluster' = cluster /\ pc' = "next"
      BY <2>4 DEF EntriesEnd
    <3> QED  BY <2>2, <3>1 DEF Stray
  <2>5. CASE x = JunkFile /\ x # END
    <3>1. cluster' = cluster /\ lfn_entry' = <<>>
      BY <2>5 DEF SkipEntry, JunkFile
    <3> QED  BY <2>2, <3>1 DEF Stray
  <2> QED  BY <2>3, <2>4, <2>5
<1>7. /\ IsDirectory(At(k)) =>
            \E d \in made.directories :
                /\ d = At(k).first_cluster
                /\ \E m \in 0..Clusters :
                      WalkAt(d, m)' /\ \A p \in Named(d, op.path[k + 1]) : ~Precedes(p, Here(m)')
      /\ ~IsDirectory(At(k)) => Stray'
  BY <1>5, <1>6
<1>8. i' = k /\ At(k) # NULL /\ UNCHANGED <<made, op>> /\ k \in 0..Len(op.path) /\ k < Len(op.path)
  BY <1>2, <1>3, <1>4
<1> QED  BY <1>7, <1>8, OnTheWayAt


LEMMA FileKept ==
  ASSUME Next, pc \notin {"idle", "unmounted", "mounting"}, failures' = {}
  PROVE  failures = {}
BY FailuresGrow

\* The rest of the steps of a search.
LEMMA SearchMoves ==
  ASSUME IInv, Searching, OnTheWay, op.path # <<>>, UNCHANGED <<op, made, i>>,
         failures' = {}, SearchCluster \/ NextCluster \/ ChainRead \/ Other
  PROVE  OnTheWay'
<1>1. Control /\ Sound /\ Located /\ Asked
  BY DEF IInv, Searching, Damaged
<1>2. /\ i \in 0..Len(op.path) /\ i < Len(op.path) /\ Len(op.path) \in Nat /\ At(i) # NULL
      /\ made \in Volumes
  BY <1>1, WayIs
<1>3. PICK k : k = i
  OBVIOUS
<1>4. op.kind = "open" /\ op.kind \in {"open", "list"}
  BY DEF Searching
<1>5. ASSUME IsDirectory(At(k))
      PROVE  \E d \in made.directories :
                /\ d = At(k).first_cluster
                /\ \E m \in 0..Clusters :
                      WalkAt(d, m)' /\ \A p \in Named(d, op.path[k + 1]) : ~Precedes(p, Here(m)')
  <2>1. PICK d \in made.directories :
           /\ d = At(k).first_cluster
           /\ \E m \in 0..Clusters :
                 WalkAt(d, m) /\ \A p \in Named(d, op.path[k + 1]) : ~Precedes(p, Here(m))
    BY <1>1, <1>3, <1>5, WayIs
  <2>2. PICK m \in 0..Clusters :
           WalkAt(d, m) /\ \A p \in Named(d, op.path[k + 1]) : ~Precedes(p, Here(m))
    BY <2>1
  <2>3. \E l \in 0..Clusters : WalkAt(d, l)' /\ Here(l)' = Here(m)
    <3>1. CASE SearchCluster
      <4>1. pc = "open" /\ cluster < EOC /\ EnterCluster
        BY <3>1 DEF SearchCluster
      <4>2. WalkAt(d, m)' /\ Here(m)' = Here(m)
        BY <1>1, <2>2, <4>1, WalkEnters
      <4> QED  BY <4>2
    <3>2. CASE NextCluster
      <4>1. WalkAt(d, m)' /\ Here(m)' = Here(m)
        BY <2>2, <3>2, WalkAsks
      <4> QED  BY <4>1
    <3>3. CASE ChainRead
      <4>1. answer.ok
        BY <3>3 DEF ChainRead, Answered
      <4>2. WalkAt(d, m + 1)' /\ Here(m) = <<m + 1, 1>> /\ Here(m + 1)' = Here(m)
        BY <1>1, <1>4, <2>2, <3>3, <4>1, WalkLeads
      <4>3. m + 1 \in 0..Clusters
        BY <4>2 DEF WalkAt
      <4> QED  BY <4>2, <4>3
    <3>4. CASE Other
      <4>1. UNCHANGED <<made, cluster, pc, e, lfn_entry>>
        BY <3>4 DEF Other, callVars
      <4>2. WalkAt(d, m)' /\ Here(m)' = Here(m)
        BY <2>2, <4>1, WalkKept
      <4> QED  BY <4>2
    <3> QED  BY <3>1, <3>2, <3>3, <3>4
  <2> QED  BY <2>1, <2>2, <2>3
<1>6. ASSUME ~IsDirectory(At(k)) PROVE Stray'
  <2>1. Stray
    BY <1>1, <1>3, <1>6, WayIs
  <2>2. CASE SearchCluster
    <3>1. cluster < EOC /\ cluster' = cluster /\ lfn_entry' = <<>>
      BY <2>2 DEF SearchCluster, EnterCluster
    <3> QED  BY <2>1, <3>1 DEF Stray
  <2>3. CASE NextCluster
    <3>1. pc = "next" /\ pc' = "chain" /\ cluster' = cluster
      BY <2>3 DEF NextCluster, Asks, callVars
    <3> QED  BY <2>1, <3>1 DEF Stray
  <2>4. CASE ChainRead
    <3>1. pc = "chain" /\ answer.ok /\ pc' = "open"
      BY <1>4, <2>4 DEF ChainRead, Answered
    <3>2. cluster \in (0..Clusters + 1) \ DOMAIN made.entries
      <4>1. cluster < EOC /\ cluster \in Nat
        BY <1>1, <2>1, <3>1 DEF Stray, Located
      <4> QED  BY <2>1, <4>1, Constants DEF Stray
    <3>3. cluster' = made.fat[cluster]
      BY <1>1, <2>4, <3>1, <3>2, FatRead
    <3>4. cluster' \in Nat /\ (cluster' < EOC => cluster' \in (0..Clusters + 1) \ DOMAIN made.entries)
      BY <1>2, <3>2, <3>3, Behind
    <3> QED  BY <3>1, <3>4, Constants DEF Stray
  <2>5. CASE Other
    BY <2>1, <2>5 DEF Stray, Other, callVars
  <2> QED  BY <2>2, <2>3, <2>4, <2>5
<1>7. /\ IsDirectory(At(k)) =>
            \E d \in made.directories :
                /\ d = At(k).first_cluster
                /\ \E m \in 0..Clusters :
                      WalkAt(d, m)' /\ \A p \in Named(d, op.path[k + 1]) : ~Precedes(p, Here(m)')
      /\ ~IsDirectory(At(k)) => Stray'
  BY <1>5, <1>6
<1>8. i' = k /\ At(k) # NULL /\ UNCHANGED <<made, op>> /\ k \in 0..Len(op.path) /\ k < Len(op.path)
  BY <1>2, <1>3
<1> QED  BY <1>7, <1>8, OnTheWayAt


LEMMA SearchStep ==
  ASSUME IInv, Next, Searching => OnTheWay, Searching'
  PROVE  OnTheWay'
<1>1. Control /\ UNCHANGED made
  BY DiskStays DEF IInv
<1>2. op'.kind = "open" /\ pc' \in {"open", "entries", "next", "chain"} /\ failures' = {}
  BY DEF Searching
<1>3. CASE pc \notin {"idle", "unmounted", "mounting"}
  <2>1. UNCHANGED <<op, made>> /\ failures = {}
    BY <1>1, <1>2, <1>3, OpStays, FileKept
  <2>2. op.kind = "open" /\ pc \in {"open", "entries", "next", "chain"}
    BY <1>1, <1>2, <1>3, <2>1 DEF Control, Waiting
  <2>3. PlainVolume /\ ~PastParent(op.path)
    BY <2>1, LookupKept, ReachedKept DEF Searching
  <2>4. Searching /\ OnTheWay
    BY <2>1, <2>2, <2>3 DEF Searching
  <2>5. ~Mount /\ ~MountReturns /\ ~Unmount /\ ~Close /\ (\A p \in Paths : ~Open(p))
        /\ \A n \in Sizes : ~ReadDir(n) /\ ~ReadFile(n) /\ ~WriteFile(n) /\ ~WriteDirectory(n)
    BY <1>3 DEF Mount, MountReturns, Unmount, Close, Open, ReadDir, ReadFile, WriteFile, WriteDirectory, Begins,
                Answered
  <2>6. ~ListCluster /\ ~List /\ ~ListEnds /\ ~ReadCluster /\ ~CopyCluster /\ ~ReadEnds
        /\ ~WriteCluster /\ ~PatchCluster /\ ~Stored /\ ~WriteEnds
    BY <2>2 DEF ListCluster, List, ListEnds, ReadCluster, CopyCluster, ReadEnds, WriteCluster, PatchCluster,
                Stored, WriteEnds, Answered
  <2>7. ~OpenRoot /\ ~SearchEnds
    BY <1>2 DEF OpenRoot, SearchEnds, OpenFails, Returns
  <2>8. op.path # <<>>
    <3>1. ASSUME op.path = <<>> PROVE FALSE
      <4>1. pc = "open"
        BY <2>4, <3>1 DEF OnTheWay
      <4>2. ~SearchCluster /\ ~Search /\ ~NextCluster /\ ~ChainRead /\ call = NoCall
        BY <1>1, <3>1, <4>1 DEF SearchCluster, Search, NextCluster, ChainRead, Answered, Control, Waiting
      <4> QED  BY <2>5, <2>6, <2>7, <4>2, Steps
    <3> QED  BY <3>1
  <2>9. CASE Search
    <3>1. pc = "entries" /\ call = NoCall
      BY <2>9 DEF Search, Answered
    <3>2. answer.ok
      BY <1>2, <2>9 DEF Search, OpenFails, Returns
    <3>3. PICK x \in EntriesAt(answer.data) :
             IF x.kind = "file" /\ Matches(x) THEN Found(x)
             ELSE IF x = END THEN EntriesEnd ELSE SkipEntry(x) /\ UNCHANGED <<written, got>>
      BY <2>9, <3>2 DEF Search
    <3>4. CASE x.kind = "file" /\ Matches(x)
      <4>1. Found(x) /\ i + 1 # Len(op.path)
        BY <1>2, <3>3, <3>4 DEF Found, Returns
      <4> QED  BY <2>4, <2>8, <3>1, <3>2, <3>4, <4>1, SearchLeads
    <3>5. CASE ~(x.kind = "file" /\ Matches(x))
      <4>1. IF x = END THEN EntriesEnd ELSE SkipEntry(x)
        BY <3>3, <3>5
      <4> QED  BY <2>1, <2>4, <2>8, <3>1, <3>2, <3>5, <4>1, SearchPasses
    <3> QED  BY <3>4, <3>5
  <2>10. CASE SearchCluster \/ NextCluster \/ ChainRead \/ Other
    <3>1. UNCHANGED i
      BY <2>10 DEF SearchCluster, EnterCluster, NextCluster, ChainRead, Other, callVars
    <3> QED  BY <1>2, <2>1, <2>4, <2>8, <2>10, <3>1, SearchMoves
  <2> QED  BY <2>5, <2>6, <2>7, <2>9, <2>10, Steps
<1>4. CASE pc \in {"idle", "unmounted", "mounting"}
  <2> USE DEF Asks, ReadClusterThen, EnterCluster, Answered
  <2>1. CASE \E p \in Paths : Open(p)
    <3>1. PICK p \in Paths : Open(p)
      BY <2>1
    <3>2. op'.path = p
      BY <3>1 DEF Open, Begins
    <3> QED  BY <1>1, <3>1, <3>2, SearchBegins
  <2>2. CASE \E n \in Sizes : ReadDir(n)
    BY <1>2, <2>2 DEF ReadDir, Begins
  <2>3. CASE \E n \in Sizes : ReadFile(n) \/ WriteFile(n)
    BY <1>2, <2>3 DEF ReadFile, WriteFile, Begins
  <2>4. CASE \E n \in Sizes : WriteDirectory(n)
    BY <1>2, <2>4 DEF WriteDirectory
  <2>5. CASE Mount \/ MountReturns \/ Unmount \/ Close
    BY <1>2, <1>4, <2>5 DEF Mount, MountReturns, Unmount, Close
  <2>6. CASE Device /\ call # NoCall /\ Other
    BY <1>2, <1>4, <2>6 DEF Other
  <2>7. ~OpenRoot /\ ~SearchCluster /\ ~Search /\ ~SearchEnds /\ ~ListCluster /\ ~List /\ ~ListEnds
    BY <1>4 DEF OpenRoot, SearchCluster, Search, SearchEnds, ListCluster, List, ListEnds
  <2>8. ~ReadCluster /\ ~CopyCluster /\ ~ReadEnds /\ ~WriteCluster /\ ~PatchCluster /\ ~Stored
        /\ ~WriteEnds /\ ~NextCluster /\ ~ChainRead
    BY <1>4 DEF ReadCluster, CopyCluster, ReadEnds, WriteCluster, PatchCluster, Stored, WriteEnds,
                NextCluster, ChainRead
  <2> QED  BY <2>1, <2>2, <2>3, <2>4, <2>5, <2>6, <2>7, <2>8, Steps
<1> QED  BY <1>3, <1>4

\* What a search that returns tells is so.
LEMMA OpenStep ==
  ASSUME IInv, Next, Searching => OnTheWay
  PROVE  OpensWhatIsNamed'
<1> SUFFICES ASSUME result'.kind = "open", failures' = {}, PlainVolume', ~PastParent(op.path)'
             PROVE  OpensWhatIsNamed'
  BY DEF OpensWhatIsNamed
<1>1. Control /\ UNCHANGED made
  BY DiskStays DEF IInv
<1>2. ASSUME UNCHANGED result PROVE pc = "idle" /\ call = NoCall
  BY <1>1, <1>2 DEF Control, Waiting
<1>3. ~Unmount /\ ~Close /\ (\A p \in Paths : ~Open(p))
      /\ \A n \in Sizes : ~ReadDir(n) /\ ~ReadFile(n) /\ ~WriteFile(n) /\ ~WriteDirectory(n)
  BY DEF Unmount, Close, Open, ReadDir, ReadFile, WriteFile, WriteDirectory, Begins, NULL
<1>4. ~Mount /\ ~MountReturns /\ ~SearchCluster /\ ~ListCluster /\ ~ReadCluster /\ ~NextCluster
       /\ ~ChainRead
  BY <1>2 DEF Mount, MountReturns, SearchCluster, ListCluster, ReadCluster, NextCluster, ChainRead,
              EnterCluster, ReadClusterThen, Asks, Answered
<1>5. ~ListEnds /\ ~ReadEnds /\ ~WriteEnds
  BY <1>1 DEF Control, ListEnds, ReadEnds, WriteEnds, Returns
<1>6. ~List
  BY <1>1, <1>2 DEF List, EntriesEnd, ListFile, SkipEntry, Returns, Answered
<1>7. ~CopyCluster /\ ~PatchCluster /\ ~Stored
  BY <1>1, <1>2 DEF CopyCluster, PatchCluster, Stored, Answered, Returns, Control
<1>8. ~WriteCluster
  BY <1>1, <1>2 DEF WriteCluster, ReadClusterThen, Asks, Returns, Control
<1>9. ~(Device /\ call # NoCall /\ Other)
  BY <1>2 DEF Other
<1>10. OpenRoot \/ Search \/ SearchEnds
  BY <1>3, <1>4, <1>5, <1>6, <1>7, <1>8, <1>9, Steps
<1>11. pc \in {"open", "entries"} /\ op.kind = "open" /\ ~UNCHANGED result
  BY <1>1, <1>2, <1>10 DEF OpenRoot, Search, SearchEnds, Answered, Control
<1>12. UNCHANGED op /\ failures = {}
  BY <1>11, OpStays, FileKept
<1>13. Searching /\ OnTheWay
  BY <1>1, <1>11, <1>12, LookupKept, ReachedKept DEF Searching
<1>14. Reached(op.path)' = Reached(op.path) /\ Len(op.path)' = Len(op.path) /\ Len(op.path) \in Nat
  BY <1>1, <1>11, <1>12, ReachedKept, PathIs
<1>15. /\ At(i) # NULL /\ (op.path = <<>> => i = 0)
  BY <1>13 DEF OnTheWay
<1>16. CASE OpenRoot
  <2>1. op.path = <<>> /\ file' = fs_file(RootRecord) /\ result'.value = 1
    BY <1>16 DEF OpenRoot, Returns
  <2>2. Len(op.path) = 0
    BY <2>1
  <2>3. volume = made.bpb
    BY <1>11 DEF IInv, Damaged, Located
  <2>4. RootRecord = Root
    BY <2>3 DEF RootRecord, Root
  <2>5. Reached(op.path)[Len(op.path)] = Root
    BY <1>14, <2>2, ReachedIs
  <2>6. Root # NULL
    BY RootIs
  <2> QED  BY <1>14, <2>1, <2>4, <2>5, <2>6 DEF OpensWhatIsNamed, fs_file
<1>17. CASE Search
  <2>1. pc = "entries" /\ call = NoCall
    BY <1>17 DEF Search, Answered
  <2>2. answer.ok
    <3>1. \A X : {} # X \cup {"data"}
      OBVIOUS
    <3> QED  BY <1>17, <2>1, <3>1 DEF Search, Answered
  <2>3. PICK x \in EntriesAt(answer.data) :
             IF x.kind = "file" /\ Matches(x) THEN Found(x)
             ELSE IF x = END THEN EntriesEnd ELSE SkipEntry(x) /\ UNCHANGED <<written, got>>
    BY <1>17, <2>2 DEF Search
  <2>4. x.kind = "file" /\ Matches(x) /\ Found(x)
    BY <1>11, <2>3 DEF EntriesEnd, SkipEntry
  <2>5. i + 1 = Len(op.path) /\ file' = fs_file(x) /\ result'.value = 1
    BY <1>11, <2>4 DEF Found, Returns
  <2>6. At(i + 1) = x /\ x # NULL
    BY <1>13, <2>1, <2>2, <2>4, FoundIs
  <2>7. Reached(op.path)[Len(op.path)] = x
    BY <2>5, <2>6 DEF At
  <2> QED  BY <1>14, <2>5, <2>6, <2>7 DEF OpensWhatIsNamed, fs_file
<1>18. CASE SearchEnds
  <2>1. pc = "open" /\ op.path # <<>> /\ cluster >= EOC /\ result'.value = 0
    BY <1>18 DEF SearchEnds, OpenFails, Returns
  <2>2. /\ i \in 0..Len(op.path) /\ i < Len(op.path) /\ Len(op.path) \in Nat
        /\ made \in Volumes /\ i + 1 \in 1..Len(op.path)
    BY <1>1, <1>13, <2>1, WayIs
  <2>3. At(i + 1) = Onward(At(i), op.path[i + 1])
    BY <2>2, ReachedIs DEF At
  <2>4. ASSUME IsDirectory(At(i)) PROVE At(i + 1) = NULL
    <3>1. PICK d \in made.directories :
             /\ d = At(i).first_cluster
             /\ \E m \in 0..Clusters :
                   WalkAt(d, m) /\ \A p \in Named(d, op.path[i + 1]) : ~Precedes(p, Here(m))
      BY <1>1, <1>13, <2>1, <2>4, WayIs
    <3>2. PICK m \in 0..Clusters : WalkAt(d, m) /\ \A p \in Named(d, op.path[i + 1]) : ~Precedes(p, Here(m))
      BY <3>1
    <3>3. \A p \in Places(d) : Precedes(p, Here(m))
      BY <1>1, <2>1, <3>2, AllBehind
    <3>4. Named(d, op.path[i + 1]) = {}
      BY <3>2, <3>3 DEF Named, Files
    <3>5. d # 0
      BY <2>2, FirstIs
    <3> QED  BY <2>3, <2>4, <3>1, <3>4, <3>5 DEF Onward, Lookup
  <2>5. ~IsDirectory(At(i)) => At(i + 1) = NULL
    BY <2>3 DEF Onward
  <2>6. At(i + 1) = NULL
    BY <2>4, <2>5
  <2>7. Reached(op.path)[Len(op.path)] = NULL
    BY <2>2, <2>6, Nowhere DEF At
  <2> QED  BY <1>14, <2>1, <2>7 DEF OpensWhatIsNamed
<1> QED  BY <1>10, <1>16, <1>17, <1>18


\* fat32_open finds the file or directory that a path names, the first entry with each name, and
\* says that there is none only where there is none: on every whole volume whose names it can
\* put together, whatever paths are asked for.
THEOREM Opening == Spec => []OpensWhatIsNamed
<1> DEFINE SInv == (Searching => OnTheWay) /\ OpensWhatIsNamed
<1>1. Init => SInv
  BY DEF Init, Searching, OpensWhatIsNamed, NULL
<1>2. IInv /\ SInv /\ [Next]_vars => SInv'
  <2> SUFFICES ASSUME IInv, SInv, [Next]_vars PROVE SInv'
    OBVIOUS
  <2>1. CASE Next
    BY <2>1, SearchStep, OpenStep
  <2>2. CASE UNCHANGED vars
    <3>1. UNCHANGED <<made, op, file, pc, cluster, i, e, lfn_entry, result, failures>>
      BY <2>2 DEF vars, callVars
    <3>2. Reached(op.path)' = Reached(op.path) /\ (PastParent(op.path)' <=> PastParent(op.path))
          /\ PlainVolume' = PlainVolume
      BY <3>1, ReachedKept, LookupKept
    <3>3. OpensWhatIsNamed'
      BY <3>1, <3>2 DEF OpensWhatIsNamed, fs_file
    <3>4. ASSUME Searching' PROVE OnTheWay'
      <4>1. Searching /\ OnTheWay
        BY <3>1, <3>2, <3>4 DEF Searching
      <4>2. At(i)' = At(i)
        BY <3>1, <3>2 DEF At
      <4>3. \A d, m : WalkAt(d, m)' = WalkAt(d, m) /\ Here(m)' = Here(m)
        BY <3>1 DEF WalkAt, Here, Gathered, StartsRun, IsLong, Spelled, Follow
      <4>4. \A d, name : Named(d, name)' = Named(d, name)
        BY <3>1, LookupKept
      <4>5. Stray' = Stray
        BY <3>1 DEF Stray
      <4>6. \A d, name : InDir(d, name)' = InDir(d, name)
        BY <4>3, <4>4 DEF InDir
      <4>7. Onto(i)' = Onto(i)
        BY <3>1, <3>2, <4>5, <4>6 DEF Onto, At, IsDirectory
      <4> QED  BY <3>1, <4>1, <4>2, <4>7 DEF OnTheWay
    <3> QED  BY <3>3, <3>4
  <2> QED  BY <2>1, <2>2
<1>3. SInv => OpensWhatIsNamed
  OBVIOUS
<1> HIDE DEF SInv
<1> QED  BY <1>1, <1>2, <1>3, Invariance, PTL DEF Spec


-----------------------------------------------------------------------------
\* The listing of a directory.
Walking == {"list", "entries", "next", "chain"}
Passed(d, q) == {p \in Files(d) : Precedes(p, q)}

\* How many entries at most have been read past the ends of the clusters.
Over(m) ==
    IF pc = "entries"
    THEN PastBound * m + (IF e > PerCluster(made.bpb) THEN e - PerCluster(made.bpb) ELSE 0)
    ELSE IF pc \in {"next", "chain"} THEN PastBound * (m + 1) ELSE PastBound * m

Told(d) ==
    \A k \in Infos : \E p \in Files(d) :
        /\ got[k] = Info(d, p)
        /\ Cardinality({j \in Infos : j < k}) = Cardinality({q \in Files(d) : Precedes(q, p)})

\* The entries before the one that comes next have been told of, and junk behind the clusters.
OnTheList(d) ==
    /\ \E S : got \in Seq(S)
    /\ Len(got) = written /\ Told(d)
    /\ \E m \in 0..Clusters :
          /\ WalkAt(d, m) /\ Cardinality(Infos) = Cardinality(Passed(d, Here(m)))
          /\ pc = "entries" => e <= PerCluster(made.bpb) + PastBound
          /\ written <= Cardinality(Infos) + Over(m)

Telling == op.kind = "list" /\ pc \in Walking /\ failures = {} /\ PlainVolume
           /\ file.record.first_cluster # 0

DirOpen ==
    /\ file # NULL /\ file.directory => file.record.first_cluster \in made.directories \cup {0}
    /\ op.kind = "list" /\ pc \notin {"idle", "unmounted", "mounting"} => file # NULL /\ file.directory

LEMMA FilesFinite ==
  ASSUME made \in Volumes, NEW d, NEW q
  PROVE  /\ IsFiniteSet(Files(d)) /\ Cardinality(Files(d)) \in Nat
         /\ IsFiniteSet(Passed(d, q)) /\ Cardinality(Passed(d, q)) \in Nat
         /\ Cardinality(Passed(d, q)) <= Cardinality(Files(d))
<1> DEFINE A == 0..Clusters - 1
           B == 1..PerCluster(made.bpb)
<1>1. IsFiniteSet(A) /\ IsFiniteSet(B)
  BY Shape, Constants, FS_Interval
<1> HIDE DEF A, B
<1>2. IsFiniteSet(A \X B)
  BY <1>1, FS_Product
<1>3. Files(d) \subseteq A \X B
  BY DEF Files, Places, A, B
<1>4. IsFiniteSet(Files(d))
  BY <1>2, <1>3, FS_Subset
<1>5. Passed(d, q) \subseteq Files(d)
  BY DEF Passed
<1>6. IsFiniteSet(Passed(d, q)) /\ Cardinality(Passed(d, q)) <= Cardinality(Files(d))
  BY <1>4, <1>5, FS_Subset
<1> QED  BY <1>4, <1>6, FS_CardinalityType

LEMMA InfosFinite ==
  ASSUME NEW S, got \in Seq(S)
  PROVE  /\ DOMAIN got = 1..Len(got) /\ Len(got) \in Nat /\ Infos \subseteq 1..Len(got)
         /\ IsFiniteSet(Infos) /\ Cardinality(Infos) \in Nat
<1>1. DOMAIN got = 1..Len(got) /\ Len(got) \in Nat
  OBVIOUS
<1>2. Infos \subseteq 1..Len(got)
  BY <1>1 DEF Infos
<1>3. IsFiniteSet(1..Len(got))
  BY <1>1, FS_Interval
<1>4. IsFiniteSet(Infos) /\ Cardinality(Infos) \in Nat
  BY <1>2, <1>3, FS_Subset, FS_CardinalityType
<1> QED  BY <1>1, <1>2, <1>4

Longer(t, s, x) ==
    /\ \E T : t \in Seq(T)
    /\ Len(t) = Len(s) + 1 /\ Len(s) \in Nat
    /\ t[Len(s) + 1] = x
    /\ \A k \in 1..Len(s) : t[k] = s[k]

LEMMA Appended ==
  ASSUME NEW S, NEW s \in Seq(S), NEW x
  PROVE  Longer(Append(s, x), s, x)
<1> DEFINE T == S \cup {x}
<1>1. s \in Seq(T) /\ x \in T
  OBVIOUS
<1> HIDE DEF T
<1>2. /\ Append(s, x) \in Seq(T)
      /\ Len(Append(s, x)) = Len(s) + 1 /\ Len(s) \in Nat
      /\ Append(s, x)[Len(s) + 1] = x
      /\ \A k \in 1..Len(s) : Append(s, x)[k] = s[k]
  BY <1>1
<1> QED  BY <1>2 DEF Longer

\* The number of an entry past the ends of the clusters.
LEMMA OverIs ==
  ASSUME NEW m \in Nat
  PROVE  /\ PastBound \in Nat /\ PastBound * m \in Nat /\ PastBound * (m + 1) = PastBound * m + PastBound
         /\ PastBound * (m + 1) \in Nat
<1>1. PastBound \in Nat
  BY FatAssumption
<1>2. \A b \in Nat : b * m \in Nat /\ b * (m + 1) = b * m + b /\ b * (m + 1) \in Nat
  OBVIOUS
<1> QED  BY <1>1, <1>2


LEMMA ListKept ==
  ASSUME UNCHANGED made
  PROVE  /\ \A d : Files(d)' = Files(d)
         /\ \A d, p : Info(d, p)' = Info(d, p)
         /\ \A d, q : Passed(d, q)' = Passed(d, q)
<1>1. \A d : Files(d)' = Files(d)
  BY LookupKept
<1>2. \A d, p : Info(d, p)' = Info(d, p)
  BY LookupKept DEF Info
<1>3. \A d, q : Passed(d, q)' = Passed(d, q)
  BY <1>1 DEF Passed
<1> QED  BY <1>1, <1>2, <1>3

LEMMA ToldKept ==
  ASSUME UNCHANGED <<made, got>>
  PROVE  Infos' = Infos /\ \A d : Told(d)' <=> Told(d)
<1>1. Infos' = Infos
  BY DEF Infos
<1>2. \A d : Told(d)' <=> Told(d)
  BY <1>1, ListKept DEF Told
<1> QED  BY <1>1, <1>2

LEMMA OnTheListAt ==
  ASSUME NEW d, OnTheList(d), NEW m \in 0..Clusters, UNCHANGED <<made, got, written>>,
         WalkAt(d, m)', Cardinality(Infos) = Cardinality(Passed(d, Here(m)')),
         pc' = "entries" => e' <= PerCluster(made.bpb) + PastBound,
         written <= Cardinality(Infos) + Over(m)'
  PROVE  OnTheList(d)'
<1>1. Infos' = Infos /\ Told(d)'
  BY ToldKept DEF OnTheList
<1>2. (\E S : got' \in Seq(S)) /\ Len(got') = written'
  BY DEF OnTheList
<1>3. PICK h : h = Here(m)'
  OBVIOUS
<1>4. Passed(d, Here(m))' = Passed(d, h)
  BY <1>3, ListKept DEF Passed
<1>5. Cardinality(Infos)' = Cardinality(Passed(d, Here(m)))'
  BY <1>1, <1>3, <1>4
<1>6. PerCluster(made.bpb)' = PerCluster(made.bpb)
  BY DEF PerCluster
<1> QED  BY <1>1, <1>2, <1>5, <1>6 DEF OnTheList

LEMMA ListBegins ==
  ASSUME IInv, DirOpen, NEW n \in Sizes, ReadDir(n), Telling', UNCHANGED made,
         NEW d, d = file.record.first_cluster
  PROVE  OnTheList(d)'
<1>1. file # NULL /\ file.directory /\ file' = file /\ cluster' = d /\ pc' = "list" /\ got' = <<>> /\ written' = 0
  BY DEF ReadDir, Begins
<1>2. made \in Volumes /\ d \in made.directories
  BY <1>1 DEF IInv, Control, Telling, DirOpen
<1>3. WalkAt(d, 0)' /\ Here(0)' = <<0, 1>> /\ \A p \in Places(d) : ~Precedes(p, <<0, 1>>)
  BY <1>1, WalkBegins
<1>4. Passed(d, <<0, 1>>) = {}
  BY <1>3 DEF Passed, Files
<1>5. Infos' = {}
  BY <1>1 DEF Infos
<1>6. Passed(d, Here(0))' = {}
  BY <1>3, <1>4, ListKept DEF Passed
<1>7. Cardinality(Infos)' = 0 /\ Cardinality(Passed(d, Here(0)))' = 0
  BY <1>5, <1>6, FS_EmptySet
<1>8. Over(0)' \in Nat
  <2>1. Over(0)' = PastBound * 0
    BY <1>1 DEF Over
  <2> QED  BY <2>1, OverIs
<1>9. Told(d)'
  BY <1>5 DEF Told
<1>10. got' \in Seq({}) /\ Len(got') = written' /\ 0 \in 0..Clusters
  BY <1>1, Constants
<1>11. written' <= Cardinality(Infos)' + Over(0)'
  BY <1>1, <1>7, <1>8
<1> QED  BY <1>1, <1>3, <1>7, <1>9, <1>10, <1>11 DEF OnTheList

LEMMA ListMoves ==
  ASSUME IInv, Telling, NEW d \in made.directories, OnTheList(d), UNCHANGED <<op, made, got, written>>,
         failures' = {}, ListCluster \/ NextCluster \/ ChainRead \/ Other
  PROVE  OnTheList(d)'
<1>1. Control /\ Sound /\ Located /\ Asked /\ op.kind = "list" /\ op.kind \in {"open", "list"}
  BY DEF IInv, Telling, Damaged
<1>2. PICK m \in 0..Clusters :
          /\ WalkAt(d, m) /\ Cardinality(Infos) = Cardinality(Passed(d, Here(m)))
          /\ pc = "entries" => e <= PerCluster(made.bpb) + PastBound
          /\ written <= Cardinality(Infos) + Over(m)
  BY DEF OnTheList
<1>3. \E l \in 0..Clusters :
          /\ WalkAt(d, l)' /\ Here(l)' = Here(m)
          /\ pc' = "entries" => e' <= PerCluster(made.bpb) + PastBound
          /\ Over(l)' = Over(m)
  <2>1. PerCluster(made.bpb) \in Nat /\ PastBound \in Nat /\ PerCluster(made.bpb)' = PerCluster(made.bpb) /\ m \in Nat
    BY <1>1, Shape, Constants, FatAssumption DEF Control, PerCluster
  <2>2. CASE ListCluster
    <3>1. pc = "list" /\ cluster < EOC /\ EnterCluster /\ pc' = "entries" /\ e' = 0
      BY <2>2 DEF ListCluster, EnterCluster, ReadClusterThen, Asks
    <3>2. WalkAt(d, m)' /\ Here(m)' = Here(m)
      BY <1>1, <1>2, <3>1, WalkEnters
    <3>3. Over(m)' = PastBound * m + 0
      BY <2>1, <3>1 DEF Over
    <3>4. Over(m) = PastBound * m /\ PastBound * m + 0 = PastBound * m
      BY <2>1, <3>1, OverIs DEF Over
    <3> QED  BY <2>1, <3>1, <3>2, <3>3, <3>4
  <2>3. CASE NextCluster
    <3>1. WalkAt(d, m)' /\ Here(m)' = Here(m)
      BY <1>2, <2>3, WalkAsks
    <3>2. pc = "next" /\ pc' = "chain"
      BY <2>3 DEF NextCluster, Asks
    <3> QED  BY <3>1, <3>2 DEF Over
  <2>4. CASE ChainRead
    <3>1. answer.ok /\ pc = "chain" /\ pc' = "list"
      BY <1>1, <2>4 DEF ChainRead, Answered
    <3>2. WalkAt(d, m + 1)' /\ Here(m) = <<m + 1, 1>> /\ Here(m + 1)' = Here(m)
      BY <1>1, <1>2, <2>4, <3>1, WalkLeads
    <3>3. m + 1 \in 0..Clusters
      BY <3>2 DEF WalkAt
    <3>4. Over(m + 1)' = Over(m)
      BY <3>1 DEF Over
    <3> QED  BY <3>1, <3>2, <3>3, <3>4
  <2>5. CASE Other
    <3>1. UNCHANGED <<made, cluster, pc, e, lfn_entry>>
      BY <2>5 DEF Other, callVars
    <3>2. WalkAt(d, m)' /\ Here(m)' = Here(m)
      BY <1>2, <3>1, WalkKept
    <3>3. Over(m)' = Over(m)
      BY <3>1 DEF Over, PerCluster
    <3> QED  BY <1>2, <3>1, <3>2, <3>3
  <2> QED  BY <2>2, <2>3, <2>4, <2>5
<1>4. PICK l \in 0..Clusters :
          /\ WalkAt(d, l)' /\ Here(l)' = Here(m)
          /\ pc' = "entries" => e' <= PerCluster(made.bpb) + PastBound
          /\ Over(l)' = Over(m)
  BY <1>3
<1>5. Cardinality(Infos) = Cardinality(Passed(d, Here(l)'))
  BY <1>2, <1>4
<1>6. written <= Cardinality(Infos) + Over(l)'
  BY <1>2, <1>4
<1> QED  BY <1>4, <1>5, <1>6, OnTheListAt


\* What an entry adds to the ones that have been passed.
LEMMA PassedMore ==
  ASSUME Control, NEW d \in made.directories, NEW m, WalkAt(d, m), pc = "entries", NEW x, IsRead(x)
  PROVE  IF x = END THEN Passed(d, <<m + 1, 1>>) = Passed(d, <<m, e + 1>>)
         ELSE Passed(d, <<m, (e + 1) + 1>>) = Passed(d, <<m, e + 1>>) \cup ({<<m, e + 1>>} \cap Files(d))
<1> DEFINE h == <<m, e + 1>>
<1>1. cluster < EOC
  BY DEF WalkAt
<1>2. m \in Nat /\ e \in Nat
  BY <1>1, WalkIs
<1>3. \A p \in Files(d) : p \in Places(d) /\ p = <<p[1], p[2]>> /\ p[1] \in Nat /\ p[2] \in Nat /\ p[2] > 0
  BY PlaceIs DEF Files
<1>4. \A p \in Files(d) : Precedes(p, h) => Precedes(p, <<m, (e + 1) + 1>>) /\ Precedes(p, <<m + 1, 1>>)
  BY <1>2, <1>3 DEF Precedes
<1>5. CASE x = END
  <2>1. \A p \in Places(d) : ~Precedes(p, h) => ~Precedes(p, <<m + 1, 1>>)
    BY <1>5, NextPlace
  <2> HIDE DEF h
  <2>2. Passed(d, <<m + 1, 1>>) = Passed(d, h)
    BY <1>3, <1>4, <2>1 DEF Passed
  <2> QED  BY <1>5, <2>2 DEF h
<1>6. CASE x # END
  <2>1. \A p \in Places(d) : ~Precedes(p, h) => Passes(p, m)
    BY <1>6, NextEntry
  <2>2. \A p \in Places(d) : ~Precedes(p, h) /\ Precedes(p, <<m, (e + 1) + 1>>) => p = h
    BY <2>1 DEF Passes
  <2>3. Precedes(h, <<m, (e + 1) + 1>>)
    BY <1>2 DEF Precedes
  <2> HIDE DEF h
  <2>4. Passed(d, <<m, (e + 1) + 1>>) = Passed(d, h) \cup ({h} \cap Files(d))
    BY <1>3, <1>4, <2>2, <2>3 DEF Passed
  <2> QED  BY <1>6, <2>4 DEF h
<1> QED  BY <1>5, <1>6

\* What is read behind the entries of a cluster is no place of a file, nor is what is not one.
LEMMA NoFileAt ==
  ASSUME Control, NEW d \in made.directories, NEW m, WalkAt(d, m), pc = "entries",
         e >= Len(made.entries[cluster]) \/ made.entries[cluster][e + 1].kind # "file"
  PROVE  {<<m, e + 1>>} \cap Files(d) = {}
<1> DEFINE h == <<m, e + 1>>
<1>1. cluster < EOC /\ cluster = Follow(made, d)[m]
  BY DEF WalkAt
<1>2. made \in Volumes /\ e \in Nat /\ cluster \in DOMAIN made.entries
  BY <1>1, WalkIs
<1>3. Len(made.entries[cluster]) \in Nat /\ DOMAIN made.entries[cluster] = 1..Len(made.entries[cluster])
  BY <1>2, RecordIs
<1>4. h[1] = m /\ h[2] = e + 1
  OBVIOUS
<1> HIDE DEF h
<1>5. ASSUME h \in Files(d) PROVE FALSE
  <2>1. h[2] \in 1..Len(made.entries[cluster]) /\ made.entries[cluster][h[2]].kind = "file"
    BY <1>1, <1>3, <1>4, <1>5 DEF Files, Places, EntryAt, ClusterAt
  <2> QED  BY <1>2, <1>3, <1>4, <2>1
<1> QED  BY <1>5 DEF h

\* In the midst of a listing.
LEMMA ListIs ==
  ASSUME IInv, Telling, NEW d \in made.directories, OnTheList(d), pc = "entries", call = NoCall, answer.ok,
         NEW x \in EntriesAt(answer.data)
  PROVE  \E m \in 0..Clusters :
            /\ WalkAt(d, m) /\ Cardinality(Infos) = Cardinality(Passed(d, <<m, e + 1>>))
            /\ e <= PerCluster(made.bpb) + PastBound
            /\ written <= Cardinality(Infos) + Over(m)
            /\ cluster < EOC /\ cluster \in DOMAIN made.entries /\ IsRead(x) /\ Here(m) = <<m, e + 1>>
<1>1. PICK m \in 0..Clusters :
          /\ WalkAt(d, m) /\ Cardinality(Infos) = Cardinality(Passed(d, Here(m)))
          /\ pc = "entries" => e <= PerCluster(made.bpb) + PastBound
          /\ written <= Cardinality(Infos) + Over(m)
  BY DEF OnTheList
<1>2. Here(m) = <<m, e + 1>>
  BY DEF Here
<1>3. Reading
  BY ReadingIs DEF Telling
<1>4. cluster < EOC /\ Control
  BY <1>1 DEF WalkAt, IInv
<1>5. cluster \in DOMAIN made.entries
  BY <1>1, <1>4, WalkIs
<1>6. IsRead(x)
  BY <1>3, <1>5, EntriesRead DEF IsRead
<1> QED  BY <1>1, <1>2, <1>4, <1>5, <1>6

LEMMA ListPasses ==
  ASSUME IInv, Telling, NEW d \in made.directories, OnTheList(d), pc = "entries", call = NoCall, answer.ok,
         NEW x \in EntriesAt(answer.data), x.kind # "file", UNCHANGED <<made, got, written>>,
         IF x = END THEN EntriesEnd ELSE SkipEntry(x)
  PROVE  OnTheList(d)'
<1>1. PICK m \in 0..Clusters :
            /\ WalkAt(d, m) /\ Cardinality(Infos) = Cardinality(Passed(d, <<m, e + 1>>))
            /\ e <= PerCluster(made.bpb) + PastBound
            /\ written <= Cardinality(Infos) + Over(m)
            /\ cluster < EOC /\ cluster \in DOMAIN made.entries /\ IsRead(x) /\ Here(m) = <<m, e + 1>>
  BY ListIs
<1>2. Control /\ PlainVolume /\ made \in Volumes /\ e \in Nat
  BY DEF IInv, Control, Telling
<1>3. /\ PerCluster(made.bpb) \in Nat /\ PerCluster(made.bpb)' = PerCluster(made.bpb) /\ m \in Nat
      /\ Len(made.entries[cluster]) \in Nat /\ Len(made.entries[cluster]) <= PerCluster(made.bpb)
  <2>1. PerCluster(made.bpb)' = PerCluster(made.bpb)
    BY DEF PerCluster
  <2>2. PerCluster(made.bpb) \in Nat
    BY <1>2, Shape
  <2>3. Len(made.entries[cluster]) \in Nat /\ Len(made.entries[cluster]) <= PerCluster(made.bpb)
    BY <1>1, <1>2, RecordIs
  <2>4. m \in Nat
    BY Constants
  <2> QED  BY <2>1, <2>2, <2>3, <2>4
<1>4. /\ PastBound \in Nat /\ PastBound * m \in Nat /\ PastBound * (m + 1) = PastBound * m + PastBound
      /\ PastBound * (m + 1) \in Nat
  BY <1>3, OverIs
<1>5. written \in Nat /\ Cardinality(Infos) \in Nat
  <2>1. PICK S : got \in Seq(S)
    BY DEF OnTheList
  <2> QED  BY <2>1, InfosFinite DEF OnTheList
<1> DEFINE P == PerCluster(made.bpb)
           a == PastBound * m
           b == PastBound * (m + 1)
<1>6. Over(m) = a + (IF e > P THEN e - P ELSE 0)
  BY DEF Over
<1>7. CASE x # END
  <2>1. e < Len(made.entries[cluster]) /\ made.entries[cluster][e + 1].kind # "file"
    BY <1>1, <1>7 DEF IsRead, JunkFile
  <2>2. Skips(x) /\ e' = e + 1 /\ pc' = "entries"
    BY <1>7 DEF Skips, SkipEntry
  <2>3. WalkAt(d, m)' /\ Here(m)' = <<m, (e + 1) + 1>>
    BY <1>1, <1>2, <1>7, <2>2, WalkSkips
  <2>4. Passed(d, <<m, (e + 1) + 1>>) = Passed(d, <<m, e + 1>>)
    <3>1. {<<m, e + 1>>} \cap Files(d) = {}
      BY <1>1, <1>2, <2>1, NoFileAt
    <3>2. Passed(d, <<m, (e + 1) + 1>>) = Passed(d, <<m, e + 1>>) \cup ({<<m, e + 1>>} \cap Files(d))
      BY <1>1, <1>2, <1>7, PassedMore
    <3> QED  BY <3>1, <3>2
  <2>5. Over(m)' = Over(m)
    <3>1. Over(m)' = a + (IF e' > P THEN e' - P ELSE 0)
      BY <1>3, <2>2 DEF Over
    <3> HIDE DEF a, P
    <3> QED  BY <1>2, <1>3, <1>6, <2>1, <2>2, <3>1 DEF P
  <2>6. e' <= PerCluster(made.bpb) + PastBound
    BY <1>2, <1>3, <1>4, <2>1, <2>2
  <2>7. Cardinality(Infos) = Cardinality(Passed(d, Here(m)')) /\ written <= Cardinality(Infos) + Over(m)'
    BY <1>1, <2>3, <2>4, <2>5
  <2> QED  BY <2>3, <2>6, <2>7, OnTheListAt
<1>8. CASE x = END
  <2>1. EntriesEnd /\ pc' = "next"
    BY <1>8 DEF EntriesEnd
  <2>2. WalkAt(d, m)' /\ Here(m)' = <<m + 1, 1>>
    BY <1>1, <2>1, WalkTurns
  <2>3. Passed(d, <<m + 1, 1>>) = Passed(d, <<m, e + 1>>)
    BY <1>1, <1>2, <1>8, PassedMore
  <2>4. Over(m)' = b
    BY <2>1 DEF Over
  <2>5. written <= Cardinality(Infos) + Over(m)'
    <3>1. b = a + PastBound /\ a \in Nat /\ e <= P + PastBound /\ written <= Cardinality(Infos) + Over(m)
      BY <1>1, <1>4
    <3> HIDE DEF a, b, P
    <3>2. Over(m) <= b /\ b \in Nat /\ Over(m) \in Nat
      BY <1>2, <1>3, <1>4, <1>6, <3>1 DEF P
    <3> QED  BY <1>5, <2>4, <3>1, <3>2
  <2>6. Cardinality(Infos) = Cardinality(Passed(d, Here(m)'))
    BY <1>1, <2>2, <2>3
  <2> QED  BY <2>1, <2>2, <2>5, <2>6, OnTheListAt
<1> QED  BY <1>7, <1>8


\* An entry that is told of: one of the directory, with its name, or junk without one.
LEMMA ListTells ==
  ASSUME IInv, Telling, NEW d \in made.directories, OnTheList(d), pc = "entries", call = NoCall, answer.ok,
         NEW x \in EntriesAt(answer.data), x.kind = "file", UNCHANGED made, ListFile(x),
         NEW m \in 0..Clusters, WalkAt(d, m), Cardinality(Infos) = Cardinality(Passed(d, <<m, e + 1>>)),
         IsRead(x), cluster \in DOMAIN made.entries
  PROVE  /\ \E S : got' \in Seq(S)
         /\ Len(got') = written' /\ written' = written + 1 /\ written \in Nat /\ Told(d)'
         /\ Cardinality(Infos)' \in Nat /\ Cardinality(Infos) \in Nat
         /\ Cardinality(Infos)' = Cardinality(Passed(d, <<m, (e + 1) + 1>>))
         /\ IF e < Len(made.entries[cluster]) THEN Cardinality(Infos)' = Cardinality(Infos) + 1
            ELSE Cardinality(Infos)' = Cardinality(Infos) /\ e >= PerCluster(made.bpb)
                 /\ e < PerCluster(made.bpb) + PastBound
<1>1. Control /\ PlainVolume /\ made \in Volumes /\ e \in Nat
  BY DEF IInv, Control, Telling
<1> DEFINE info == fs_file_info(NameOf(x), x)
           h == <<m, e + 1>>
           t == <<m, (e + 1) + 1>>
           n == written
<1>2. got' = Append(got, info) /\ written' = n + 1
  BY DEF ListFile
<1>3. PICK S : got \in Seq(S)
  BY DEF OnTheList
<1>4. Len(got) = n /\ n \in Nat /\ DOMAIN got = 1..n /\ Infos \subseteq 1..n /\ IsFiniteSet(Infos)
      /\ Cardinality(Infos) \in Nat
  BY <1>3, InfosFinite DEF OnTheList
<1> HIDE DEF info, n
<1>5. /\ \E T : got' \in Seq(T)
      /\ Len(got') = n + 1 /\ got'[n + 1] = info
      /\ \A k \in 1..n : got'[k] = got[k]
  <2>1. \A s \in Seq(S) : \A y : Longer(Append(s, y), s, y)
    BY Appended
  <2>2. Longer(got', got, info)
    BY <1>2, <1>3, <2>1, Zenon
  <2> QED  BY <1>4, <2>2 DEF Longer
<1>6. DOMAIN got' = 1..n + 1
  BY <1>5
<1>7. info.name = NameOf(x)
  BY DEF info, fs_file_info
<1>8. Infos' = {k \in 1..n + 1 : got'[k].name # JunkFile.name}
  BY <1>6 DEF Infos
<1>9. Infos = {k \in 1..n : got[k].name # JunkFile.name}
  BY <1>4 DEF Infos
<1>10. Infos' = IF NameOf(x) = JunkFile.name THEN Infos ELSE Infos \cup {n + 1}
  BY <1>4, <1>5, <1>7, <1>8, <1>9
<1>11. n + 1 \notin Infos /\ \A k \in Infos : k <= n /\ got'[k] = got[k]
  <2>1. \A k \in Infos : k \in 1..n
    BY <1>4
  <2>2. \A k \in 1..n : k <= n /\ k # n + 1
    BY <1>4
  <2> QED  BY <1>5, <2>1, <2>2
<1>12. ASSUME NEW k \in Infos
       PROVE  \E p \in Files(d) :
                 /\ got'[k] = Info(d, p)
                 /\ Cardinality({j \in Infos' : j < k}) = Cardinality(Passed(d, p))
  <2>1. PICK p \in Files(d) :
           got[k] = Info(d, p) /\ Cardinality({j \in Infos : j < k}) = Cardinality({q \in Files(d) : Precedes(q, p)})
    BY DEF OnTheList, Told
  <2>2. k <= n /\ k \in Nat
    BY <1>4, <1>11
  <2>3. {j \in Infos' : j < k} = {j \in Infos : j < k}
    BY <1>4, <1>10, <2>2
  <2> QED  BY <1>11, <2>1, <2>3 DEF Passed
<1>13. (\A k \in Infos' : \E p \in Files(d) :
                 /\ got'[k] = Info(d, p)
                 /\ Cardinality({j \in Infos' : j < k}) = Cardinality(Passed(d, p)))
       => Told(d)'
  BY ListKept DEF Told, Passed
<1>14. CASE e < Len(made.entries[cluster])
  <2>1. x = made.entries[cluster][e + 1]
    <3>1. Len(made.entries[cluster]) <= PerCluster(made.bpb) /\ Len(made.entries[cluster]) \in Nat
          /\ PerCluster(made.bpb) \in Nat
      BY <1>1, RecordIs, Shape
    <3> QED  BY <1>1, <1>14, <3>1 DEF IsRead
  <2>2. h \in Files(d) /\ EntryAt(d, h) = x /\ NameOf(x) = TrueName(d, h) /\ TrueName(d, h) # <<>>
    BY <1>1, <1>14, <2>1, NameIs
  <2>3. Infos' = Infos \cup {n + 1}
    BY <1>10, <2>2 DEF JunkFile
  <2>4. Passed(d, t) = Passed(d, h) \cup {h}
    <3>1. x # END
      BY DEF END
    <3>2. Passed(d, t) = Passed(d, h) \cup ({h} \cap Files(d))
      BY <1>1, <3>1, PassedMore
    <3> HIDE DEF h
    <3> QED  BY <2>2, <3>2
  <2>5. h \notin Passed(d, h)
    <3>1. ~Precedes(h, h)
      BY <1>1, Constants DEF Precedes
    <3> HIDE DEF h
    <3> QED  BY <3>1 DEF Passed
  <2> HIDE DEF h, t
  <2>6. Cardinality(Infos') = Cardinality(Infos) + 1
    <3> DEFINE k == n + 1
    <3>1. k \notin Infos /\ Infos' = Infos \cup {k}
      BY <1>11, <2>3
    <3> HIDE DEF k
    <3> QED  BY <1>4, <3>1, FS_AddElement
  <2>7. Cardinality(Passed(d, t)) = Cardinality(Passed(d, h)) + 1
    BY <1>1, <2>4, <2>5, FilesFinite, FS_AddElement
  <2>8. Cardinality(Infos) = Cardinality(Passed(d, h))
    BY DEF h
  <2>9. /\ got'[n + 1] = Info(d, h)
        /\ {j \in Infos' : j < n + 1} = Infos
    <3>1. info = Info(d, h)
      BY <2>2 DEF info, Info
    <3>2. \A j \in Infos : j \in Nat /\ j < n + 1
      BY <1>4
    <3> QED  BY <1>4, <1>5, <2>3, <3>1, <3>2
  <2>10. \A k \in Infos' : \E p \in Files(d) :
                 /\ got'[k] = Info(d, p)
                 /\ Cardinality({j \in Infos' : j < k}) = Cardinality(Passed(d, p))
    BY <1>12, <2>2, <2>3, <2>8, <2>9
  <2>11. Cardinality(Infos)' = Cardinality(Infos) + 1 /\ Cardinality(Infos)' \in Nat
    BY <1>4, <2>6
  <2> QED  BY <1>2, <1>4, <1>5, <1>13, <1>14, <2>7, <2>8, <2>10, <2>11 DEF t, n
<1>15. CASE ~(e < Len(made.entries[cluster]))
  <2>1. x = JunkFile /\ e >= PerCluster(made.bpb) /\ e < PerCluster(made.bpb) + PastBound
    BY <1>15 DEF IsRead, END
  <2>2. Len(made.entries[cluster]) \in Nat /\ e >= Len(made.entries[cluster])
    BY <1>1, <1>15, RecordIs
  <2>3. cluster < EOC /\ Gathered
    BY DEF WalkAt
  <2>4. lfn_entry = <<>>
    BY <1>1, <2>2, <2>3, NothingLeft
  <2>5. NameOf(x) = JunkFile.name
    BY <2>1, <2>4 DEF NameOf, ShortName, JunkFile
  <2>6. Infos' = Infos
    BY <1>10, <2>5
  <2>7. Passed(d, t) = Passed(d, h)
    <3>1. x # END
      BY DEF END
    <3>2. Passed(d, t) = Passed(d, h) \cup ({h} \cap Files(d))
      BY <1>1, <3>1, PassedMore
    <3>3. {h} \cap Files(d) = {}
      BY <1>1, <2>2, NoFileAt
    <3> HIDE DEF h
    <3> QED  BY <3>2, <3>3
  <2>8. \A k \in Infos' : \E p \in Files(d) :
                 /\ got'[k] = Info(d, p)
                 /\ Cardinality({j \in Infos' : j < k}) = Cardinality(Passed(d, p))
    BY <1>12, <2>6
  <2>9. Cardinality(Infos)' = Cardinality(Infos)
    BY <2>6
  <2> QED  BY <1>2, <1>4, <1>5, <1>13, <1>15, <2>1, <2>7, <2>8, <2>9 DEF n
<1> QED  BY <1>14, <1>15


\* As many clusters as have been passed are in the chain.
LEMMA ChainLong ==
  ASSUME made \in Volumes, NEW d \in made.directories, NEW m \in 0..Clusters, Follow(made, d)[m] < EOC
  PROVE  /\ Cardinality({k \in 0..Clusters : Follow(made, d)[k] < EOC}) \in Nat
         /\ m + 1 <= Cardinality({k \in 0..Clusters : Follow(made, d)[k] < EOC})
<1> DEFINE f == Follow(made, d)
           K == {k \in 0..Clusters : f[k] < EOC}
<1>1. 0..m \subseteq K
  <2>1. ASSUME NEW k \in 0..m, k \notin K PROVE FALSE
    <3>1. k \in 0..Clusters /\ m \in k..Clusters
      BY Constants
    <3>2. f[k] \in Nat /\ f[m] \in Nat
      BY <3>1, ChainInside
    <3>3. f[k] >= EOC
      BY <2>1, <3>1, <3>2, Constants
    <3>4. f[m] >= EOC
      BY <3>1, <3>3, ChainOver
    <3> QED  BY <3>2, <3>4, Constants
  <2> QED  BY <2>1
<1>2. IsFiniteSet(0..Clusters) /\ K \subseteq 0..Clusters
  <2>1. 0 \in Int /\ Clusters \in Int
    BY Constants
  <2>2. IsFiniteSet(0..Clusters)
    BY <2>1, FS_Interval
  <2> QED  BY <2>2
<1>3. IsFiniteSet(K)
  BY <1>2, FS_Subset
<1>4. Cardinality(0..m) = m + 1
  <2>1. 0 \in Int /\ m \in Int /\ m \in Nat
    BY Constants
  <2>2. Cardinality(0..m) = IF 0 > m THEN 0 ELSE (m - 0) + 1
    BY <2>1, FS_Interval
  <2> QED  BY <2>1, <2>2
<1> HIDE DEF K
<1>5. Cardinality(0..m) <= Cardinality(K) /\ Cardinality(K) \in Nat
  BY <1>1, <1>3, FS_Subset, FS_CardinalityType
<1> QED  BY <1>4, <1>5 DEF K

LEMMA ListAdds ==
  ASSUME IInv, Telling, NEW d \in made.directories, OnTheList(d), pc = "entries", call = NoCall, answer.ok,
         NEW x \in EntriesAt(answer.data), x.kind = "file", UNCHANGED <<made, op>>, ListFile(x)
  PROVE  /\ Told(d)'
         /\ pc' = "entries" => OnTheList(d)'
         /\ pc' = "corrupt" =>
               op.size < Cardinality(Files(d))
                          + PastBound * Cardinality({k \in 0..Clusters : Follow(made, d)[k] < EOC})
<1>1. PICK m \in 0..Clusters :
            /\ WalkAt(d, m) /\ Cardinality(Infos) = Cardinality(Passed(d, <<m, e + 1>>))
            /\ e <= PerCluster(made.bpb) + PastBound
            /\ written <= Cardinality(Infos) + Over(m)
            /\ cluster < EOC /\ cluster \in DOMAIN made.entries /\ IsRead(x) /\ Here(m) = <<m, e + 1>>
  BY ListIs
<1>2. Control /\ PlainVolume /\ made \in Volumes /\ e \in Nat /\ op.size \in Nat
  BY DEF IInv, Control, Telling
<1> DEFINE P == PerCluster(made.bpb)
           a == PastBound * m
           b == PastBound * (m + 1)
           c == Cardinality(Infos)
           past == IF e + 1 > P THEN (e + 1) - P ELSE 0
           n == Len(made.entries[cluster])
<1>3. P \in Nat /\ P' = P /\ m \in Nat /\ n \in Nat /\ n <= P
  <2>1. P' = P
    BY DEF PerCluster
  <2>2. P \in Nat
    BY <1>2, Shape
  <2>3. n \in Nat /\ n <= P
    BY <1>1, <1>2, RecordIs
  <2>4. m \in Nat
    BY Constants
  <2> QED  BY <2>1, <2>2, <2>3, <2>4
<1>4. PastBound \in Nat /\ a \in Nat /\ b = a + PastBound /\ b \in Nat
  BY <1>3, OverIs
<1>5. /\ \E S : got' \in Seq(S)
      /\ Len(got') = written' /\ written' = written + 1 /\ written \in Nat /\ Told(d)'
      /\ c' \in Nat /\ c \in Nat
      /\ c' = Cardinality(Passed(d, <<m, (e + 1) + 1>>))
      /\ IF e < n THEN c' = c + 1 ELSE c' = c /\ e >= P /\ e < P + PastBound
  BY <1>1, ListTells
<1>6. Over(m) = a + (IF e > P THEN e - P ELSE 0)
  BY DEF Over
<1>7. e' = e + 1 /\ lfn_entry' = <<>> /\ cluster' = cluster /\ UNCHANGED op
      /\ pc' = IF written >= op.size THEN "corrupt" ELSE pc
  BY DEF ListFile
<1>8. written <= c + Over(m)
  BY <1>1
<1> DEFINE c1 == Cardinality(Passed(d, <<m, (e + 1) + 1>>))
<1>9. c1 \in Nat /\ (IF e < n THEN c1 = c + 1 ELSE c1 = c /\ e >= P /\ e < P + PastBound)
  BY <1>5
<1>12. written + 1 <= c1 + (a + past) /\ e + 1 <= P + PastBound /\ past <= PastBound /\ past \in Nat
  <2>1. e <= P + PastBound
    BY <1>1
  <2>2. past = IF e + 1 > P THEN (e + 1) - P ELSE 0
    OBVIOUS
  <2> DEFINE o == Over(m)
  <2>3. written <= c + o /\ o = a + (IF e > P THEN e - P ELSE 0)
    BY <1>6, <1>8
  <2> HIDE DEF P, a, b, c, c1, n, past, o
  <2>4. CASE e < n
    <3>1. e < P /\ past = 0 /\ o = a
      BY <1>2, <1>3, <1>4, <2>2, <2>3, <2>4
    <3> QED  BY <1>2, <1>3, <1>4, <1>5, <1>9, <2>3, <2>4, <3>1
  <2>5. CASE ~(e < n)
    <3>1. e >= P /\ e < P + PastBound /\ c1 = c
      BY <1>9, <2>5
    <3>2. past = (e + 1) - P /\ o = a + (e - P) /\ past \in Nat /\ o \in Nat
      BY <1>2, <1>3, <1>4, <2>2, <2>3, <3>1
    <3> QED  BY <1>2, <1>3, <1>4, <1>5, <1>9, <2>3, <3>1, <3>2
  <2> QED  BY <2>4, <2>5
<1>10. ASSUME pc' = "entries" PROVE OnTheList(d)'
  <2>1. Skips(x)
    BY <1>7, <1>10 DEF Skips
  <2>2. x # END
    BY DEF END
  <2>3. WalkAt(d, m)' /\ Here(m)' = <<m, (e + 1) + 1>>
    BY <1>1, <1>2, <2>1, <2>2, WalkSkips
  <2>4. Over(m)' = a + past
    BY <1>3, <1>7, <1>10 DEF Over
  <2>5. Passed(d, Here(m))' = Passed(d, <<m, (e + 1) + 1>>)
    BY <2>3, ListKept DEF Passed
  <2>6. c' = Cardinality(Passed(d, Here(m)))'
    BY <1>5, <2>5
  <2>7. e' <= P' + PastBound
    BY <1>3, <1>7, <1>12
  <2>8. written' <= c' + Over(m)'
    BY <1>5, <1>12, <2>4
  <2> QED  BY <1>5, <2>3, <2>6, <2>7, <2>8 DEF OnTheList
<1>11. ASSUME pc' = "corrupt"
       PROVE  op.size < Cardinality(Files(d))
                          + PastBound * Cardinality({k \in 0..Clusters : Follow(made, d)[k] < EOC})
  <2> DEFINE K == {k \in 0..Clusters : Follow(made, d)[k] < EOC}
             l == Cardinality(K)
             all == Cardinality(Files(d))
  <2>1. l \in Nat /\ m + 1 <= l
    <3>1. Follow(made, d)[m] < EOC
      BY <1>1 DEF WalkAt
    <3> QED  BY <1>2, <3>1, ChainLong
  <2>2. c1 <= all /\ all \in Nat
    BY <1>2, FilesFinite
  <2>3. b <= PastBound * l /\ PastBound * l \in Nat
    <3>1. \A p \in Nat, r \in Nat, s \in Nat : r <= s => p * r <= p * s /\ p * s \in Nat
      OBVIOUS
    <3> DEFINE q == m + 1
    <3>2. q \in Nat /\ q <= l /\ l \in Nat /\ PastBound \in Nat
      BY <1>3, <1>4, <2>1
    <3> HIDE DEF l, q
    <3>3. PastBound * q <= PastBound * l /\ PastBound * l \in Nat
      BY <3>1, <3>2
    <3> QED  BY <3>3 DEF q
  <2>4. written >= op.size
    BY <1>7, <1>11
  <2> DEFINE y == PastBound * l
  <2>5. b <= y /\ y \in Nat
    BY <2>3
  <2> DEFINE r == op.size
  <2>7. r \in Nat /\ written >= r
    BY <1>2, <2>4
  <2> HIDE DEF y, l, all, a, b, c, c1, past, r
  <2>6. r < all + y
    BY <1>4, <1>5, <1>9, <1>12, <2>2, <2>5, <2>7
  <2> QED  BY <2>6 DEF y, l, all, r
<1> QED  BY <1>5, <1>10, <1>11


-----------------------------------------------------------------------------
\* Only a directory is listed, which is the root or has a chain.
LEMMA DirOpenStep ==
  ASSUME IInv, DirOpen, Next
  PROVE  DirOpen'
<1>1. Control /\ FileOpen /\ UNCHANGED made /\ made \in Volumes
  BY DiskStays DEF IInv, Control
<1>2. ASSUME file' # NULL, file'.directory PROVE file'.record.first_cluster \in made.directories \cup {0}
  <2>1. CASE UNCHANGED file
    BY <1>2, <2>1 DEF DirOpen
  <2>2. CASE Opens
    <3>1. PICK x : Entry(made, x) /\ file' = fs_file(x)
      BY <2>2 DEF Opens
    <3>2. "DIRECTORY" \in x.attributes /\ file'.record = x
      BY <1>2, <3>1 DEF fs_file
    <3> QED  BY <3>1, <3>2 DEF Entry
  <2>3. CASE file # NULL /\ ~file.directory /\ file' = [file EXCEPT !.record.size = Size]
    <3>1. file \in OpenFile
      BY <1>1, <2>3 DEF FileOpen
    <3>2. file'.directory = file.directory
      BY <2>3, <3>1 DEF OpenFile
    <3> QED  BY <1>2, <2>3, <3>2
  <2> QED  BY <1>2, <2>1, <2>2, <2>3, FileChange
<1>3. ASSUME op'.kind = "list", pc' \notin {"idle", "unmounted", "mounting"}
      PROVE  file' # NULL /\ file'.directory
  <2>1. CASE pc \notin {"idle", "unmounted", "mounting"}
    <3>1. UNCHANGED op
      BY <2>1, OpStays
    <3>2. file # NULL /\ file.directory
      BY <1>3, <2>1, <3>1 DEF DirOpen
    <3>3. UNCHANGED file
      BY <1>3, <3>1, <3>2, FileChange
    <3> QED  BY <3>2, <3>3
  <2>2. CASE pc \in {"idle", "unmounted", "mounting"}
    <3> USE DEF Asks, ReadClusterThen, EnterCluster, Answered
    <3>1. CASE \E n \in Sizes : ReadDir(n)
      BY <3>1 DEF ReadDir
    <3>2. CASE \E n \in Sizes : ReadFile(n) \/ WriteFile(n)
      BY <1>3, <3>2 DEF ReadFile, WriteFile, Begins
    <3>3. CASE \E p \in Paths : Open(p)
      BY <1>3, <3>3 DEF Open, Begins
    <3>4. CASE \E n \in Sizes : WriteDirectory(n)
      BY <1>3, <3>4 DEF WriteDirectory
    <3>5. CASE Mount \/ MountReturns \/ Unmount \/ Close
      BY <1>3, <2>2, <3>5 DEF Mount, MountReturns, Unmount, Close
    <3>6. CASE Device /\ call # NoCall /\ Other
      BY <1>3, <2>2, <3>6 DEF Other
    <3>7. ~OpenRoot /\ ~SearchCluster /\ ~Search /\ ~SearchEnds /\ ~ListCluster /\ ~List /\ ~ListEnds
      BY <2>2 DEF OpenRoot, SearchCluster, Search, SearchEnds, ListCluster, List, ListEnds
    <3>8. ~ReadCluster /\ ~CopyCluster /\ ~ReadEnds /\ ~WriteCluster /\ ~PatchCluster /\ ~Stored
          /\ ~WriteEnds /\ ~NextCluster /\ ~ChainRead
      BY <2>2 DEF ReadCluster, CopyCluster, ReadEnds, WriteCluster, PatchCluster, Stored, WriteEnds,
                  NextCluster, ChainRead
    <3> QED  BY <3>1, <3>2, <3>3, <3>4, <3>5, <3>6, <3>7, <3>8, Steps
  <2> QED  BY <2>1, <2>2
<1> QED  BY <1>1, <1>2, <1>3 DEF DirOpen

\* A step in the midst of a listing is one of these.
LEMMA ListNext ==
  ASSUME IInv, DirOpen, Next, op.kind = "list", pc \notin {"idle", "unmounted", "mounting"}, failures' = {}
  PROVE  /\ UNCHANGED <<op, made, file>> /\ failures = {} /\ file # NULL /\ file.directory
         /\ pc \in Walking \cup {"corrupt"}
         /\ \/ pc # "corrupt" /\ (ListCluster \/ NextCluster \/ ChainRead)
            \/ Other
            \/ pc = "list" /\ ListEnds
            \/ pc = "entries" /\ call = NoCall /\ answer.ok /\ List
<1>1. Control /\ UNCHANGED made
  BY DiskStays DEF IInv
<1>2. UNCHANGED op /\ failures = {}
  BY OpStays, FileKept
<1>3. file # NULL /\ file.directory
  BY DEF DirOpen
<1>4. ~Mount /\ ~MountReturns /\ ~Unmount /\ ~Close /\ (\A p \in Paths : ~Open(p))
      /\ \A n \in Sizes : ~ReadDir(n) /\ ~ReadFile(n) /\ ~WriteFile(n) /\ ~WriteDirectory(n)
  BY DEF Mount, MountReturns, Unmount, Close, Open, ReadDir, ReadFile, WriteFile, WriteDirectory, Begins, Answered
<1>5. pc \in Walking \cup {"corrupt"}
  BY <1>1 DEF Control, Walking, Waiting
<1>6. ~OpenRoot /\ ~SearchCluster /\ ~Search /\ ~SearchEnds
  BY <1>5 DEF OpenRoot, SearchCluster, Search, SearchEnds, Walking
<1>7. ~ReadCluster /\ ~CopyCluster /\ ~ReadEnds /\ ~WriteCluster /\ ~PatchCluster /\ ~Stored /\ ~WriteEnds
  BY <1>5 DEF ReadCluster, CopyCluster, ReadEnds, WriteCluster, PatchCluster, Stored, WriteEnds, Walking, Answered
<1>8. ListCluster \/ NextCluster \/ ChainRead => pc # "corrupt"
  BY DEF ListCluster, NextCluster, ChainRead, Answered
<1>9. ListEnds => pc = "list"
  BY DEF ListEnds
<1>10. List => pc = "entries" /\ call = NoCall /\ answer.ok
  <2>1. \A X : {} # X \cup {"data"}
    OBVIOUS
  <2> QED  BY <2>1 DEF List, Answered
<1>11. UNCHANGED file
  <2>1. List => UNCHANGED file
    BY <1>10 DEF List, EntriesEnd, ListFile, SkipEntry
  <2>2. ListEnds \/ ListCluster \/ NextCluster \/ ChainRead \/ Other => UNCHANGED file
    BY DEF ListEnds, ListCluster, EnterCluster, ReadClusterThen, Asks, NextCluster, ChainRead, Other
  <2> QED  BY <1>4, <1>6, <1>7, <2>1, <2>2, Steps
<1> QED  BY <1>1, <1>2, <1>3, <1>4, <1>5, <1>6, <1>7, <1>8, <1>9, <1>10, <1>11, Steps


LEMMA ListStep ==
  ASSUME IInv, DirOpen, NEW d, d = file.record.first_cluster, Next, Telling => OnTheList(d), Telling'
  PROVE  OnTheList(d)'
<1>1. Control /\ UNCHANGED made
  BY DiskStays DEF IInv
<1>2. op'.kind = "list" /\ pc' \in Walking /\ failures' = {}
  BY DEF Telling
<1>3. CASE pc \notin {"idle", "unmounted", "mounting"}
  <2>1. UNCHANGED op
    BY <1>3, OpStays
  <2>2. op.kind = "list"
    BY <1>2, <2>1
  <2>3. /\ UNCHANGED <<op, made, file>> /\ failures = {} /\ file # NULL /\ file.directory
        /\ pc \in Walking \cup {"corrupt"}
        /\ \/ pc # "corrupt" /\ (ListCluster \/ NextCluster \/ ChainRead)
           \/ Other
           \/ pc = "list" /\ ListEnds
           \/ pc = "entries" /\ call = NoCall /\ answer.ok /\ List
    BY <1>2, <1>3, <2>2, ListNext
  <2>4. pc # "corrupt"
    BY <1>2, <2>3 DEF Other, Walking
  <2>5. Telling /\ OnTheList(d)
    BY <2>2, <2>3, <2>4, LookupKept DEF Telling
  <2>6. d \in made.directories
    BY <2>3, <2>5 DEF DirOpen, Telling
  <2>7. CASE pc = "entries" /\ call = NoCall /\ answer.ok /\ List
    <3>1. pc = "entries" /\ call = NoCall /\ answer.ok
      BY <2>7
    <3>2. PICK x \in EntriesAt(answer.data) :
             IF x = END THEN EntriesEnd
             ELSE IF x.kind = "file" THEN ListFile(x)
             ELSE SkipEntry(x) /\ UNCHANGED <<written, got>>
      BY <2>7, <3>1 DEF List
    <3>3. CASE x.kind = "file"
      <4>1. ListFile(x)
        BY <3>2, <3>3 DEF END
      <4>2. pc' = "entries"
        BY <1>2, <3>1, <4>1 DEF ListFile, Walking
      <4> QED  BY <2>3, <2>5, <2>6, <3>1, <3>3, <4>1, <4>2, ListAdds
    <3>4. CASE x.kind # "file"
      <4>1. UNCHANGED <<written, got>>
        BY <3>2, <3>4 DEF EntriesEnd
      <4>2. IF x = END THEN EntriesEnd ELSE SkipEntry(x)
        BY <3>2, <3>4
      <4> QED  BY <2>3, <2>5, <2>6, <3>1, <3>4, <4>1, <4>2, ListPasses
    <3> QED  BY <3>3, <3>4
  <2>8. CASE ListCluster \/ NextCluster \/ ChainRead \/ Other
    <3>1. UNCHANGED <<got, written>>
      BY <2>8 DEF ListCluster, EnterCluster, NextCluster, ChainRead, Other, callVars
    <3> QED  BY <1>2, <2>3, <2>5, <2>6, <2>8, <3>1, ListMoves
  <2>9. ~ListEnds
    BY <1>2 DEF ListEnds, Returns, Walking
  <2> QED  BY <2>3, <2>7, <2>8, <2>9
<1>4. CASE pc \in {"idle", "unmounted", "mounting"}
  <2> USE DEF Asks, ReadClusterThen, EnterCluster, Answered
  <2>1. CASE \E n \in Sizes : ReadDir(n)
    BY <1>1, <2>1, ListBegins
  <2>2. CASE \E n \in Sizes : ReadFile(n) \/ WriteFile(n)
    BY <1>2, <2>2 DEF ReadFile, WriteFile, Begins
  <2>3. CASE \E p \in Paths : Open(p)
    BY <1>2, <2>3 DEF Open, Begins
  <2>4. CASE \E n \in Sizes : WriteDirectory(n)
    BY <1>2, <2>4 DEF WriteDirectory
  <2>5. CASE Mount \/ MountReturns \/ Unmount \/ Close
    BY <1>2, <1>4, <2>5 DEF Mount, MountReturns, Unmount, Close, Walking
  <2>6. CASE Device /\ call # NoCall /\ Other
    BY <1>2, <1>4, <2>6 DEF Other, Walking
  <2>7. ~OpenRoot /\ ~SearchCluster /\ ~Search /\ ~SearchEnds /\ ~ListCluster /\ ~List /\ ~ListEnds
    BY <1>4 DEF OpenRoot, SearchCluster, Search, SearchEnds, ListCluster, List, ListEnds
  <2>8. ~ReadCluster /\ ~CopyCluster /\ ~ReadEnds /\ ~WriteCluster /\ ~PatchCluster /\ ~Stored
        /\ ~WriteEnds /\ ~NextCluster /\ ~ChainRead
    BY <1>4 DEF ReadCluster, CopyCluster, ReadEnds, WriteCluster, PatchCluster, Stored, WriteEnds,
                NextCluster, ChainRead
  <2> QED  BY <2>1, <2>2, <2>3, <2>4, <2>5, <2>6, <2>7, <2>8, Steps
<1> QED  BY <1>3, <1>4

\* What has been told of, when the buffer stays.
LEMMA ListTold ==
  ASSUME ListsEntries, UNCHANGED <<made, op, got, file, result>>, failures' = {} => failures = {},
         UNCHANGED pc \/ pc' # "corrupt"
  PROVE  ListsEntries'
<1>1. PlainVolume' = PlainVolume
  BY LookupKept
<1>2. PICK d : d = file.record.first_cluster
  OBVIOUS
<1>3. SUFFICES ASSUME file # NULL, op.kind = "list", failures' = {}, PlainVolume', d # 0
               PROVE  ListsEntries'
  BY <1>2 DEF ListsEntries
<1>4. /\ Told(d)
      /\ result.kind = "list" /\ result.value < op.size => Cardinality(Infos) = Cardinality(Files(d))
      /\ pc = "corrupt" =>
            op.size < Cardinality(Files(d))
                       + PastBound * Cardinality({k \in 0..Clusters : Follow(made, d)[k] < EOC})
  BY <1>1, <1>2, <1>3 DEF ListsEntries, Told
<1>5. Infos' = Infos /\ Told(d)' /\ Files(d)' = Files(d) /\ Follow(made, d)' = Follow(made, d)
  BY <1>4, ToldKept, ListKept DEF Follow
<1> QED  BY <1>2, <1>4, <1>5 DEF ListsEntries, Told


\* What a listing that returns, or has overrun its buffer, tells is so.
LEMMA ListsStep ==
  ASSUME IInv, DirOpen, Next, NEW d, d = file.record.first_cluster, Telling => OnTheList(d), ListsEntries
  PROVE  ListsEntries'
<1>1. Control /\ UNCHANGED made
  BY DiskStays DEF IInv
<1>2. SUFFICES ASSUME file' # NULL, op'.kind = "list", failures' = {}, PlainVolume', file'.record.first_cluster # 0
               PROVE  ListsEntries'
  BY DEF ListsEntries
<1>3. CASE pc \notin {"idle", "unmounted", "mounting"}
  <2>1. op.kind = "list"
    BY <1>2, <1>3, OpStays
  <2>2. /\ UNCHANGED <<op, made, file>> /\ failures = {} /\ file # NULL /\ file.directory
        /\ pc \in Walking \cup {"corrupt"}
        /\ \/ pc # "corrupt" /\ (ListCluster \/ NextCluster \/ ChainRead)
           \/ Other
           \/ pc = "list" /\ ListEnds
           \/ pc = "entries" /\ call = NoCall /\ answer.ok /\ List
    BY <1>2, <1>3, <2>1, ListNext
  <2>3. d # 0 /\ d \in made.directories /\ PlainVolume /\ d = file'.record.first_cluster
    BY <1>2, <2>2, LookupKept DEF DirOpen
  <2>4. pc # "corrupt" => Telling /\ OnTheList(d)
    BY <2>1, <2>2, <2>3 DEF Telling
  <2>5. CASE ListCluster \/ NextCluster \/ ChainRead \/ Other
    <3>1. UNCHANGED <<got, result>> /\ (UNCHANGED pc \/ pc' # "corrupt")
      BY <1>1, <2>1, <2>5 DEF ListCluster, EnterCluster, ReadClusterThen, Asks, NextCluster, ChainRead, Other, callVars
    <3> QED  BY <2>2, <3>1, ListTold
  <2>6. CASE pc = "list" /\ ListEnds
    <3>1. /\ pc' = "idle" /\ result'.value = written /\ UNCHANGED got
          /\ cluster >= EOC \/ written >= op.size
      BY <2>6 DEF ListEnds, Returns
    <3>2. OnTheList(d) /\ d \in made.directories
      BY <2>3, <2>4, <2>6
    <3>3. PICK m \in 0..Clusters : WalkAt(d, m) /\ Cardinality(Infos) = Cardinality(Passed(d, Here(m)))
      BY <3>2 DEF OnTheList
    <3>4. ASSUME written < op.size PROVE Cardinality(Infos) = Cardinality(Files(d))
      <4>1. cluster >= EOC
        <5>1. \E S : got \in Seq(S) /\ Len(got) = written
          BY <3>2 DEF OnTheList
        <5>2. written \in Nat /\ op.size \in Nat
          BY <1>1, <5>1, InfosFinite DEF Control
        <5> QED  BY <3>1, <3>4, <5>2
      <4>2. \A p \in Places(d) : Precedes(p, Here(m))
        BY <1>1, <2>6, <3>2, <3>3, <4>1, AllBehind
      <4>3. Passed(d, Here(m)) = Files(d)
        BY <4>2 DEF Passed, Files
      <4> QED  BY <3>3, <4>3
    <3>5. Told(d)
      BY <3>2 DEF OnTheList
    <3>6. Infos' = Infos /\ Told(d)' /\ Files(d)' = Files(d)
      BY <1>1, <3>1, <3>5, ToldKept, ListKept
    <3>7. \A k \in Infos' : \E p \in Files(d)' :
             /\ got'[k] = Info(d, p)'
             /\ Cardinality({j \in Infos' : j < k}) = Cardinality({q \in Files(d)' : Precedes(q, p)})
      BY <3>6 DEF Told, Precedes
    <3>8. result'.value < op.size => Cardinality(Infos') = Cardinality(Files(d)')
      BY <3>1, <3>4, <3>6
    <3> QED  BY <2>2, <2>3, <3>1, <3>7, <3>8 DEF ListsEntries, Precedes
  <2>7. CASE pc = "entries" /\ call = NoCall /\ answer.ok /\ List
    <3>1. PICK x \in EntriesAt(answer.data) :
             IF x = END THEN EntriesEnd
             ELSE IF x.kind = "file" THEN ListFile(x)
             ELSE SkipEntry(x) /\ UNCHANGED <<written, got>>
      BY <2>7 DEF List
    <3>2. CASE x.kind # "file"
      <4>1. UNCHANGED <<got, result>> /\ (UNCHANGED pc \/ pc' # "corrupt")
        BY <3>1, <3>2 DEF EntriesEnd, SkipEntry
      <4> QED  BY <2>2, <4>1, ListTold
    <3>3. CASE x.kind = "file"
      <4>1. ListFile(x)
        BY <3>1, <3>3 DEF END
      <4>2. Telling /\ OnTheList(d)
        BY <2>4, <2>7
      <4>3. /\ Told(d)'
            /\ pc' = "corrupt" =>
                  op.size < Cardinality(Files(d))
                             + PastBound * Cardinality({k \in 0..Clusters : Follow(made, d)[k] < EOC})
        BY <2>2, <2>3, <2>7, <3>3, <4>1, <4>2, ListAdds
      <4>4. result'.kind # "list"
        BY <1>1, <2>7, <4>1 DEF ListFile, Control
      <4>5. Files(d)' = Files(d) /\ Follow(made, d)' = Follow(made, d)
        BY <1>1, ListKept DEF Follow
      <4> QED  BY <2>2, <2>3, <4>3, <4>4, <4>5 DEF ListsEntries, Told
    <3> QED  BY <3>2, <3>3
  <2> QED  BY <2>2, <2>5, <2>6, <2>7
<1>4. CASE pc \in {"idle", "unmounted", "mounting"}
  <2> USE DEF Asks, ReadClusterThen, EnterCluster, Answered
  <2>1. CASE \E n \in Sizes : ReadDir(n)
    <3>1. got' = <<>> /\ result' = NULL /\ pc' = "list"
      BY <2>1 DEF ReadDir, Begins
    <3>2. Infos' = {}
      BY <3>1 DEF Infos
    <3>3. result'.kind # "list"
      BY <3>1 DEF NULL
    <3> QED  BY <3>1, <3>2, <3>3 DEF ListsEntries
  <2>2. CASE \E n \in Sizes : ReadFile(n) \/ WriteFile(n)
    BY <1>2, <2>2 DEF ReadFile, WriteFile, Begins
  <2>3. CASE \E p \in Paths : Open(p)
    BY <1>2, <2>3 DEF Open, Begins
  <2>4. CASE \E n \in Sizes : WriteDirectory(n)
    BY <1>2, <2>4 DEF WriteDirectory
  <2>5. CASE Mount \/ MountReturns \/ (Device /\ call # NoCall /\ Other)
    <3>1. UNCHANGED <<op, got, file, result>> /\ (UNCHANGED pc \/ pc' # "corrupt") /\ (failures' = {} => failures = {})
      BY <2>5 DEF Mount, MountReturns, Other, callVars
    <3> QED  BY <1>1, <3>1, ListTold
  <2>6. CASE Unmount \/ Close
    BY <1>2, <2>6 DEF Unmount, Close
  <2>7. ~OpenRoot /\ ~SearchCluster /\ ~Search /\ ~SearchEnds /\ ~ListCluster /\ ~List /\ ~ListEnds
    BY <1>4 DEF OpenRoot, SearchCluster, Search, SearchEnds, ListCluster, List, ListEnds
  <2>8. ~ReadCluster /\ ~CopyCluster /\ ~ReadEnds /\ ~WriteCluster /\ ~PatchCluster /\ ~Stored
        /\ ~WriteEnds /\ ~NextCluster /\ ~ChainRead
    BY <1>4 DEF ReadCluster, CopyCluster, ReadEnds, WriteCluster, PatchCluster, Stored, WriteEnds,
                NextCluster, ChainRead
  <2> QED  BY <2>1, <2>2, <2>3, <2>4, <2>5, <2>6, <2>7, <2>8, Steps
<1> QED  BY <1>3, <1>4


\* fat32_read_dir lists a directory: the entries that it has, in their order, each with the name
\* and the values that are its own, and every one of them if the room that the caller has was
\* not used up, on every whole volume whose names the driver can put together; and it writes
\* behind the caller's buffer only where the entries, and junk behind the clusters, are too many.
THEOREM Listing == Spec => []ListsEntries
<1> DEFINE first == file.record.first_cluster
           TInv == DirOpen /\ (Telling => OnTheList(first)) /\ ListsEntries
<1>1. Init => TInv
  BY DEF Init, DirOpen, Telling, ListsEntries, NULL
<1>2. IInv /\ TInv /\ [Next]_vars => TInv'
  <2> SUFFICES ASSUME IInv, TInv, [Next]_vars PROVE TInv'
    OBVIOUS
  <2>1. CASE Next
    <3>1. DirOpen'
      BY <2>1, DirOpenStep
    <3>2. PICK d : d = file.record.first_cluster
      OBVIOUS
    <3>3. ListsEntries'
      BY <2>1, <3>2, ListsStep
    <3>4. ASSUME Telling' PROVE OnTheList(first)'
      <4>1. OnTheList(d)'
        BY <2>1, <3>2, <3>4, ListStep
      <4>2. first' = d
        <5>1. CASE UNCHANGED file
          BY <3>2, <5>1
        <5>2. CASE ~UNCHANGED file
          BY <2>1, <3>4, <5>2, FileChange DEF Telling, Walking
        <5> QED  BY <5>1, <5>2
      <4> QED  BY <4>1, <4>2 DEF OnTheList
    <3> QED  BY <3>1, <3>3, <3>4
  <2>2. CASE UNCHANGED vars
    <3>1. UNCHANGED <<made, op, file, pc, cluster, e, lfn_entry, written, got, result, failures>>
      BY <2>2 DEF vars, callVars
    <3>2. ListsEntries'
      BY <3>1, ListTold
    <3>3. DirOpen'
      BY <3>1 DEF DirOpen
    <3>4. PICK d : d = first
      OBVIOUS
    <3>5. ASSUME Telling' PROVE OnTheList(first)'
      <4>1. Telling /\ OnTheList(d)
        BY <3>1, <3>4, <3>5, LookupKept DEF Telling
      <4>2. PICK m \in 0..Clusters :
                /\ WalkAt(d, m) /\ Cardinality(Infos) = Cardinality(Passed(d, Here(m)))
                /\ pc = "entries" => e <= PerCluster(made.bpb) + PastBound
                /\ written <= Cardinality(Infos) + Over(m)
        BY <4>1 DEF OnTheList
      <4>3. WalkAt(d, m)' /\ Here(m)' = Here(m)
        BY <3>1, <4>2, WalkKept
      <4>4. Over(m)' = Over(m)
        BY <3>1 DEF Over, PerCluster
      <4>5. OnTheList(d)'
        BY <3>1, <4>1, <4>2, <4>3, <4>4, OnTheListAt
      <4>6. first' = d
        BY <3>1, <3>4
      <4> QED  BY <4>5, <4>6 DEF OnTheList
    <3> QED  BY <3>2, <3>3, <3>5
  <2> QED  BY <2>1, <2>2
<1>3. TInv => ListsEntries
  OBVIOUS
<1> HIDE DEF TInv
<1> QED  BY <1>1, <1>2, <1>3, Invariance, PTL DEF Spec

\* The days of a year before a month, added up month by month in whatever order.
Summand(w, s, k) == IF k \in s THEN w[k] ELSE 0

Quarter(w, s, k) == Summand(w, s, k) + Summand(w, s, k + 1) + Summand(w, s, k + 2)
MonthsIn(w, s) == Quarter(w, s, 1) + Quarter(w, s, 4) + Quarter(w, s, 7) + Quarter(w, s, 10)

MonthsBefore(w, m) == MonthsIn(w, 1..m - 1)

\* Any month can be the one added last.
LEMMA OneMonthLess ==
  ASSUME NEW w \in [1..12 -> Nat], NEW s \in SUBSET (1..12), NEW x \in s
  PROVE  MonthsIn(w, s) = w[x] + MonthsIn(w, s \ {x})
<1> DEFINE t == s \ {x}
           y == w[x]
<1>1. \A k \in 1..12 : /\ Summand(w, s, k) = IF k = x THEN Summand(w, t, k) + y ELSE Summand(w, t, k)
                       /\ Summand(w, t, k) \in Nat
  BY DEF Summand
<1>2. x \in 1..12 /\ y \in Nat
  OBVIOUS
<1> HIDE DEF t, y
<1>3. ASSUME NEW k \in 1..10
      PROVE  /\ Quarter(w, s, k) = IF x \in k..k + 2 THEN Quarter(w, t, k) + y ELSE Quarter(w, t, k)
             /\ Quarter(w, t, k) \in Nat
  <2> DEFINE b == Summand(w, t, k)
             c == Summand(w, t, k + 1)
             d == Summand(w, t, k + 2)
  <2>1. /\ Summand(w, s, k) = IF k = x THEN b + y ELSE b
        /\ Summand(w, s, k + 1) = IF k + 1 = x THEN c + y ELSE c
        /\ Summand(w, s, k + 2) = IF k + 2 = x THEN d + y ELSE d
        /\ b \in Nat /\ c \in Nat /\ d \in Nat
    BY <1>1
  <2>2. Quarter(w, t, k) = (b + c) + d
    BY DEF Quarter
  <2> HIDE DEF b, c, d
  <2>3. Quarter(w, s, k) = IF x \in k..k + 2 THEN ((b + c) + d) + y ELSE (b + c) + d
    BY <1>2, <2>1 DEF Quarter
  <2> QED  BY <2>1, <2>2, <2>3
<1>4. \A k \in {1, 4, 7, 10} :
         /\ Quarter(w, s, k) = IF x \in k..k + 2 THEN Quarter(w, t, k) + y ELSE Quarter(w, t, k)
         /\ Quarter(w, t, k) \in Nat
  BY <1>3
<1>5. x \in 1..3 \/ x \in 4..6 \/ x \in 7..9 \/ x \in 10..12
  BY <1>2
<1>6. MonthsIn(w, s) = y + MonthsIn(w, t)
  BY <1>2, <1>4, <1>5 DEF MonthsIn
<1> QED  BY <1>6 DEF t, y

LEMMA NoMonth ==
  ASSUME NEW w
  PROVE  MonthsIn(w, {}) = 0
BY DEF MonthsIn, Quarter, Summand

\* The recursion of MapThenSumSet.
Adds(w, S, g) ==
    g = [s \in SUBSET S |-> IF s = {} THEN 0
                            ELSE w[CHOOSE x \in s : TRUE] + g[s \ {CHOOSE x \in s : TRUE}]]

\* It has a solution, and, whatever the order in which it takes the months, one sum.
LEMMA SumIs ==
  ASSUME NEW w \in [1..12 -> Nat], NEW S \in SUBSET (1..12)
  PROVE  \E g : Adds(w, S, g) /\ \A h : Adds(w, S, h) => h[S] = MonthsIn(w, S)
<1>1. ASSUME NEW h, Adds(w, S, h), NEW s \in SUBSET S
      PROVE  h[s] = MonthsIn(w, s)
  <2>1. IsFiniteSet(1..12)
    <3>1. 1 \in Int /\ 12 \in Int
      OBVIOUS
    <3> QED  BY <3>1, FS_Interval
  <2>2. IsFiniteSet(S)
    BY <2>1, FS_Subset
  <2> DEFINE wrong == {t \in SUBSET S : h[t] # MonthsIn(w, t)}
             T == {Cardinality(t) : t \in wrong}
  <2>3. SUFFICES ASSUME wrong # {} PROVE FALSE
    OBVIOUS
  <2>4. \A t \in wrong : IsFiniteSet(t) /\ Cardinality(t) \in Nat
    BY <2>2, FS_Subset, FS_CardinalityType
  <2>5. PICK n \in T : \A m \in T : n <= m
    <3>1. T \subseteq Nat /\ T # {}
      BY <2>3, <2>4
    <3> HIDE DEF T
    <3> QED  BY <3>1, Least
  <2>6. PICK t \in wrong : n = Cardinality(t)
    BY <2>5
  <2>7. t \in SUBSET S /\ IsFiniteSet(t) /\ h[t] # MonthsIn(w, t)
    BY <2>4, <2>6
  <2>8. h[t] = IF t = {} THEN 0 ELSE w[CHOOSE x \in t : TRUE] + h[t \ {CHOOSE x \in t : TRUE}]
    BY <1>1, <2>7 DEF Adds
  <2>9. t # {}
    BY <2>7, <2>8, NoMonth
  <2> DEFINE x == CHOOSE x \in t : TRUE
  <2>10. x \in t /\ h[t] = w[x] + h[t \ {x}]
    BY <2>8, <2>9
  <2> HIDE DEF x
  <2>11. MonthsIn(w, t) = w[x] + MonthsIn(w, t \ {x})
    BY <2>7, <2>10, OneMonthLess
  <2>12. h[t \ {x}] # MonthsIn(w, t \ {x})
    BY <2>7, <2>10, <2>11
  <2>13. Cardinality(t \ {x}) \in T
    BY <2>7, <2>12
  <2>14. Cardinality(t \ {x}) = n - 1 /\ n \in Nat
    BY <2>6, <2>7, <2>10, FS_RemoveElement, FS_CardinalityType
  <2> HIDE DEF T
  <2> QED  BY <2>5, <2>13, <2>14
<1> DEFINE g == [s \in SUBSET S |-> MonthsIn(w, s)]
<1>2. Adds(w, S, g)
  <2>1. ASSUME NEW s \in SUBSET S
        PROVE  g[s] = IF s = {} THEN 0
                      ELSE w[CHOOSE x \in s : TRUE] + g[s \ {CHOOSE x \in s : TRUE}]
    <3>1. CASE s = {}
      BY <3>1, NoMonth
    <3>2. CASE s # {}
      <4> DEFINE x == CHOOSE x \in s : TRUE
      <4>1. x \in s
        BY <3>2
      <4> HIDE DEF x
      <4>2. s \ {x} \in SUBSET S /\ s \in SUBSET (1..12)
        OBVIOUS
      <4>3. MonthsIn(w, s) = w[x] + MonthsIn(w, s \ {x})
        BY <4>1, <4>2, OneMonthLess
      <4> QED  BY <3>2, <4>2, <4>3 DEF x
    <3> QED  BY <3>1, <3>2
  <2> QED  BY <2>1 DEF Adds
<1> QED  BY <1>1, <1>2

LEMMA DaysBeforeIs ==
  ASSUME NEW year, NEW month \in 1..12, MonthDays(year) \in [1..12 -> Nat]
  PROVE  DaysBefore(year, month) = MonthsBefore(MonthDays(year), month)
<1> DEFINE w == MonthDays(year)
           S == 1..month - 1
<1>1. DaysBefore(year, month) = (CHOOSE g : Adds(w, S, g))[S]
  BY Zenon DEF DaysBefore, MapThenSumSet, MapThenFoldSet, Adds
<1>2. S \in SUBSET (1..12)
  OBVIOUS
<1> HIDE DEF w, S
<1>3. w \in [1..12 -> Nat]
  BY DEF w
<1>4. Adds(w, S, CHOOSE g : Adds(w, S, g))
  BY <1>2, <1>3, SumIs
<1>5. (CHOOSE g : Adds(w, S, g))[S] = MonthsIn(w, S)
  BY <1>2, <1>3, <1>4, SumIs
<1>6. DaysBefore(year, month) = MonthsIn(w, S)
  BY <1>1, <1>5
<1> QED  BY <1>6 DEF w, S, MonthsBefore


\* The code's months are the calendar's.
LEMMA MonthsAre ==
  ASSUME NEW year, ~IsLeap(year)
  PROVE  MonthDays(year) = Days /\ Days \in [1..12 -> Nat]
<1>1. MonthDays(year) = [Days EXCEPT ![2] = 28]
  BY DEF MonthDays, IsLeap, Days
<1>2. Days \in [1..12 -> Nat] /\ Days[2] = 28
  BY DEF Days
<1> QED  BY <1>1, <1>2

LEMMA FirstMonths ==
  ASSUME NEW w \in [1..12 -> Nat]
  PROVE  /\ MonthsBefore(w, 1) = 0
         /\ \A m \in 2..12 : MonthsBefore(w, m) = MonthsBefore(w, m - 1) + w[m - 1]
         /\ \A m \in 1..12 : MonthsBefore(w, m) \in Nat
<1>1. MonthsIn(w, 1..1 - 1) = 0
  <2>1. 1..1 - 1 = {}
    OBVIOUS
  <2> QED  BY <2>1, NoMonth
<1>2. \A m \in 1..12 : MonthsIn(w, 1..m - 1) \in Nat
  <2>1. \A s, k : k \in 1..12 => Summand(w, s, k) \in Nat
    BY DEF Summand
  <2>2. \A s, k : k \in 1..10 => Quarter(w, s, k) \in Nat
    BY <2>1 DEF Quarter
  <2>3. ASSUME NEW s PROVE MonthsIn(w, s) \in Nat
    <3>1. Quarter(w, s, 1) \in Nat /\ Quarter(w, s, 4) \in Nat /\ Quarter(w, s, 7) \in Nat
          /\ Quarter(w, s, 10) \in Nat
      BY <2>2
    <3> QED  BY <3>1 DEF MonthsIn
  <2> QED  BY <2>3
<1>3. ASSUME NEW m \in 2..12 PROVE MonthsIn(w, 1..m - 1) = MonthsIn(w, 1..(m - 1) - 1) + w[m - 1]
  <2> DEFINE k == m - 1
             S == 1..k
             p == MonthsIn(w, 1..k - 1)
  <2>1. k \in S /\ S \in SUBSET (1..12) /\ S \ {k} = 1..k - 1 /\ k \in 1..12
    OBVIOUS
  <2>2. p \in Nat /\ w[k] \in Nat
    BY <1>2, <2>1
  <2> HIDE DEF k, S
  <2>3. MonthsIn(w, S) = w[k] + p
    <3>1. MonthsIn(w, S) = w[k] + MonthsIn(w, S \ {k})
      BY <2>1, OneMonthLess
    <3> QED  BY <2>1, <3>1
  <2> HIDE DEF p
  <2>4. MonthsIn(w, S) = p + w[k]
    BY <2>2, <2>3
  <2> QED  BY <2>4 DEF k, S, p
<1> QED  BY <1>1, <1>2, <1>3 DEF MonthsBefore

\* The function YearDay has what its equation says as values.
LEMMA YearDayIs ==
  \A m \in 1..12 : YearDay[m] = MonthsBefore(Days, m)
<1> DEFINE solves(g) == g = [m \in 1..12 |-> IF m = 1 THEN 0 ELSE g[m - 1] + Days[m - 1]]
           f == [m \in 1..12 |-> MonthsBefore(Days, m)]
<1>1. Days \in [1..12 -> Nat]
  BY DEF Days
<1>2. solves(f)
  <2>1. \A m \in 1..12 : f[m] = IF m = 1 THEN 0 ELSE f[m - 1] + Days[m - 1]
    <3>1. f[1] = 0
      BY <1>1, FirstMonths
    <3>2. ASSUME NEW m \in 1..12, m # 1 PROVE f[m] = f[m - 1] + Days[m - 1]
      <4>1. m \in 2..12 /\ m - 1 \in 1..12
        BY <3>2
      <4> QED  BY <1>1, <4>1, FirstMonths
    <3> HIDE DEF f
    <3> QED  BY <3>1, <3>2
  <2> QED  BY <2>1
<1>3. solves(YearDay)
  <2>1. YearDay = CHOOSE g : solves(g)
    BY DEF YearDay
  <2> HIDE DEF f, solves
  <2> QED  BY <1>2, <2>1
<1> DEFINE T == {m \in 1..12 : YearDay[m] # f[m]}
<1>4. SUFFICES ASSUME T # {} PROVE FALSE
  OBVIOUS
<1>5. PICK m \in T : \A k \in T : m <= k
  <2>1. T \subseteq Nat
    OBVIOUS
  <2> HIDE DEF T
  <2> QED  BY <1>4, <2>1, Least
<1>6. m \in 1..12 /\ YearDay[m] # f[m]
  BY <1>5
<1>7. /\ YearDay[m] = IF m = 1 THEN 0 ELSE YearDay[m - 1] + Days[m - 1]
      /\ f[m] = IF m = 1 THEN 0 ELSE f[m - 1] + Days[m - 1]
  <2> HIDE DEF f
  <2> QED  BY <1>2, <1>3, <1>6
<1>8. m # 1 /\ m - 1 \in 1..12 /\ YearDay[m - 1] # f[m - 1]
  <2> HIDE DEF f
  <2> QED  BY <1>6, <1>7
<1>9. m - 1 \in T
  <2> HIDE DEF f
  <2> QED  BY <1>8
<1> HIDE DEF T, f
<1> QED  BY <1>5, <1>6, <1>9

\* The leap days that the code counts are those of the calendar.
LEMMA LeapDay ==
  ASSUME NEW y \in Nat, y > 0
  PROVE  /\ Leaps(y) = Leaps(y - 1) + (IF IsLeap(y) THEN 1 ELSE 0)
         /\ Leaps(y) \in Int
<1>1. /\ y \div 4 = (y - 1) \div 4 + (IF y % 4 = 0 THEN 1 ELSE 0)
      /\ y \div 100 = (y - 1) \div 100 + (IF y % 100 = 0 THEN 1 ELSE 0)
      /\ y \div 400 = (y - 1) \div 400 + (IF y % 400 = 0 THEN 1 ELSE 0)
  OBVIOUS
<1>2. (y % 100 = 0 => y % 4 = 0) /\ (y % 400 = 0 => y % 100 = 0)
  OBVIOUS
<1> QED  BY <1>1, <1>2 DEF Leaps, IsLeap

\* Year by year, from 1980 on.
LEMMA LeapsAre ==
  \A year \in Nat : year >= 1980 =>
      /\ Cardinality({y \in 1980..year - 1 : IsLeap(y)}) = Leaps(year - 1) - Leaps(1979)
      /\ Cardinality({y \in 1980..year - 1 : IsLeap(y)}) \in Nat
<1> DEFINE before(n) == {y \in 1980..n - 1 : IsLeap(y)}
           T == {n \in Nat : n >= 1980 /\ Cardinality(before(n)) # Leaps(n - 1) - Leaps(1979)}
<1>1. ASSUME NEW n \in Nat PROVE IsFiniteSet(before(n)) /\ Cardinality(before(n)) \in Nat
  <2>1. 1980 \in Int /\ n - 1 \in Int
    OBVIOUS
  <2>2. IsFiniteSet(1980..n - 1)
    BY <2>1, FS_Interval
  <2>3. before(n) \subseteq 1980..n - 1
    OBVIOUS
  <2> HIDE DEF before
  <2> QED  BY <2>2, <2>3, FS_Subset, FS_CardinalityType
<1>2. ASSUME T # {} PROVE FALSE
  <2>0. T \subseteq Nat
    OBVIOUS
  <2>1. PICK n \in T : \A k \in T : n <= k
    <3> HIDE DEF T, before
    <3> QED  BY <1>2, <2>0, Least
  <2>2. n \in Nat /\ n >= 1980 /\ Cardinality(before(n)) # Leaps(n - 1) - Leaps(1979)
    BY <2>1
  <2>3. CASE n = 1980
    <3>1. before(n) = {}
      BY <2>3
    <3>2. Leaps(n - 1) - Leaps(1979) = 0
      BY <2>3 DEF Leaps
    <3> QED  BY <2>2, <3>1, <3>2, FS_EmptySet
  <2>4. CASE n # 1980
    <3> DEFINE k == n - 1
    <3>1. k \in Nat /\ k >= 1980 /\ k < n
      BY <2>2, <2>4
    <3>2. k \notin T
      <4> HIDE DEF T, k
      <4> QED  BY <2>1, <2>2, <3>1
    <3>3. Cardinality(before(k)) = Leaps(k - 1) - Leaps(1979)
      BY <3>1, <3>2
    <3>4. before(n) = IF IsLeap(k) THEN before(k) \cup {k} ELSE before(k)
      BY <2>2, <3>1
    <3>5. k \notin before(k)
      BY <3>1
    <3> HIDE DEF before, k
    <3>6. Cardinality(before(n)) = Cardinality(before(k)) + (IF IsLeap(k) THEN 1 ELSE 0)
      <4> DEFINE b == before(k)
      <4>1. IsFiniteSet(b) /\ Cardinality(b) \in Nat /\ k \notin b
        BY <1>1, <3>1, <3>5
      <4>2. before(n) = IF IsLeap(k) THEN b \cup {k} ELSE b
        BY <3>4
      <4> HIDE DEF b
      <4>3. Cardinality(b \cup {k}) = Cardinality(b) + 1
        BY <4>1, FS_AddElement
      <4>4. Cardinality(before(n)) = Cardinality(b) + (IF IsLeap(k) THEN 1 ELSE 0)
        BY <4>1, <4>2, <4>3
      <4> QED  BY <4>4 DEF b
    <3>7. Leaps(k) = Leaps(k - 1) + (IF IsLeap(k) THEN 1 ELSE 0) /\ Leaps(k - 1) \in Int /\ Leaps(1979) \in Int
      <4>1. k - 1 \in Nat /\ k - 1 > 0
        BY <3>1
      <4> QED  BY <3>1, <4>1, LeapDay
    <3>8. Leaps(n - 1) = Leaps(k)
      BY DEF k
    <3> QED  BY <1>1, <2>2, <3>1, <3>3, <3>6, <3>7, <3>8
  <2> QED  BY <2>3, <2>4
<1>3. ASSUME NEW year \in Nat, year >= 1980
      PROVE  Cardinality(before(year)) = Leaps(year - 1) - Leaps(1979)
  <2> HIDE DEF before
  <2> QED  BY <1>2, <1>3
<1> QED  BY <1>1, <1>3


\* A date and a time as the directory has them, and their fields.
DateOf(year, month, day) == (year - 1980) * 512 + month * 32 + day
TimeOf(hour, min, sec) == hour * 2048 + min * 32 + sec

Hours == 0..23
Minutes == 0..59
HalfMinute == 0..29

TimeIs(time, hour, min, sec) ==
    FAT_TIME_HOUR(time) = hour /\ FAT_TIME_MIN(time) = min /\ FAT_TIME_SEC(time) = 2 * sec

LEMMA DateFields ==
  ASSUME NEW year \in Nat, year >= 1980, NEW month \in 1..12, NEW day \in 1..31
  PROVE  /\ FAT_DATE_YEAR(DateOf(year, month, day)) = year
         /\ FAT_DATE_MONTH(DateOf(year, month, day)) = month
         /\ FAT_DATE_DAY(DateOf(year, month, day)) = day
<1> DEFINE y == year - 1980
           date == DateOf(year, month, day)
<1>1. y \in Nat /\ year = y + 1980
  OBVIOUS
<1>2. date = y * 512 + (month * 32 + day) /\ date = (y * 16 + month) * 32 + day
  BY <1>1 DEF DateOf
<1> HIDE DEF y, date
<1>3. date \div 512 = y /\ date \div 32 = y * 16 + month /\ (date % 32) = day /\ ((y * 16 + month) % 16) = month
  BY <1>1, <1>2
<1>4. FAT_DATE_YEAR(date) = year /\ FAT_DATE_MONTH(date) = month /\ FAT_DATE_DAY(date) = day
  BY <1>1, <1>3 DEF FAT_DATE_YEAR, FAT_DATE_MONTH, FAT_DATE_DAY
<1> QED  BY <1>4 DEF date

LEMMA TimeFields ==
  ASSUME NEW hour \in Hours, NEW min \in Minutes, NEW sec \in HalfMinute
  PROVE  TimeIs(TimeOf(hour, min, sec), hour, min, sec)
<1> DEFINE time == TimeOf(hour, min, sec)
<1>1. time = hour * 2048 + (min * 32 + sec) /\ time = (hour * 64 + min) * 32 + sec
  BY DEF TimeOf, Hours, Minutes, HalfMinute
<1> HIDE DEF time
<1>2. time \div 2048 = hour /\ time \div 32 = hour * 64 + min /\ (time % 32) = sec /\ ((hour * 64 + min) % 64) = min
  BY <1>1 DEF Hours, Minutes, HalfMinute
<1>3. FAT_TIME_HOUR(time) = hour /\ FAT_TIME_MIN(time) = min /\ FAT_TIME_SEC(time) = 2 * sec
  BY <1>2 DEF FAT_TIME_HOUR, FAT_TIME_MIN, FAT_TIME_SEC, Hours, Minutes, HalfMinute
<1> QED  BY <1>3 DEF time, TimeIs

Months == 1..12
DaysOfMonth == 1..31
OrdinaryYears == {y \in Nat : y > 1980 /\ ~IsLeap(y)}

SecondsOf(year, month, day, hour, min, sec) ==
    ((NewYear(year) + YearDay[month] + day) - 1) * 86400 + hour * 3600 + min * 60 + 2 * sec

\* fat_time_to_timestamp gives, for every date and time of every year that is no leap year, the
\* seconds since 1970 that the calendar counts.
THEOREM Posix ==
  ASSUME NEW year \in OrdinaryYears, NEW month \in Months, NEW day \in DaysOfMonth,
         NEW hour \in Hours, NEW min \in Minutes, NEW sec \in HalfMinute
  PROVE  fat_time_to_timestamp(DateOf(year, month, day), TimeOf(hour, min, sec))
         = SecondsOf(year, month, day, hour, min, sec)
<1> DEFINE date == DateOf(year, month, day)
           time == TimeOf(hour, min, sec)
           n == Cardinality({z \in 1980..year - 1 : IsLeap(z)})
           l == Leaps(year)
           l0 == Leaps(1969)
           m == YearDay[month]
<1>0. /\ year \in Nat /\ year > 1980 /\ ~IsLeap(year) /\ month \in 1..12 /\ day \in 1..31
      /\ hour \in 0..23 /\ min \in 0..59 /\ sec \in 0..29
  BY DEF OrdinaryYears, Months, DaysOfMonth, Hours, Minutes, HalfMinute
<1>1. /\ FAT_DATE_YEAR(date) = year /\ FAT_DATE_MONTH(date) = month /\ FAT_DATE_DAY(date) = day
      /\ FAT_TIME_HOUR(time) = hour /\ FAT_TIME_MIN(time) = min /\ FAT_TIME_SEC(time) = 2 * sec
  <2>1. year >= 1980
    BY <1>0
  <2>2. FAT_DATE_YEAR(date) = year /\ FAT_DATE_MONTH(date) = month /\ FAT_DATE_DAY(date) = day
    <3>1. year \in Nat /\ year >= 1980 /\ month \in 1..12 /\ day \in 1..31
      BY <1>0, <2>1
    <3> QED  BY <3>1, DateFields
  <2>3. FAT_TIME_HOUR(time) = hour /\ FAT_TIME_MIN(time) = min /\ FAT_TIME_SEC(time) = 2 * sec
    <3>1. TimeIs(time, hour, min, sec)
      BY Zenon, TimeFields
    <3> QED  BY <3>1 DEF TimeIs
  <2> QED  BY <2>2, <2>3
<1>2. DaysBefore(year, month) = m /\ m \in Nat
  <2>1. MonthDays(year) = Days /\ Days \in [1..12 -> Nat]
    BY <1>0, MonthsAre
  <2>2. MonthDays(year) \in [1..12 -> Nat]
    BY <2>1
  <2>3. DaysBefore(year, month) = MonthsBefore(MonthDays(year), month)
    BY <1>0, <2>2, DaysBeforeIs
  <2>4. YearDay[month] = MonthsBefore(Days, month)
    BY <1>0, YearDayIs
  <2>5. \A k \in 1..12 : MonthsBefore(Days, k) \in Nat
    BY <2>1, FirstMonths
  <2> QED  BY <1>0, <2>1, <2>3, <2>4, <2>5
<1>3. l = n + l0 + 2 /\ n \in Nat /\ l0 \in Int
  <2>1. Leaps(year) = Leaps(year - 1) + 0
    BY <1>0, LeapDay
  <2>2. Leaps(1979) = 479 /\ Leaps(1969) = 477
    BY DEF Leaps
  <2>3. n = Leaps(year - 1) - Leaps(1979) /\ n \in Nat
    BY <1>0, LeapsAre
  <2>4. Leaps(year - 1) \in Int
    BY <1>0, LeapDay
  <2> DEFINE q == Leaps(year - 1)
  <2>5. l = q + 0 /\ n = q - 479 /\ l0 = 477 /\ q \in Int /\ n \in Nat
    BY <2>1, <2>2, <2>3, <2>4
  <2> HIDE DEF q, l, n, l0
  <2> QED  BY <2>5
<1>4. fat_time_to_timestamp(date, time)
      = ((365 * (year - 1970) + l - l0) + DaysBefore(year, month) + day - 1) * 86400
            + hour * 3600 + min * 60 + 2 * sec
  <2> HIDE DEF date, time
  <2> QED  BY <1>0, <1>1 DEF fat_time_to_timestamp
<1>5. NewYear(year) = 3652 + 365 * (year - 1980) + n
  BY DEF NewYear
<1> HIDE DEF n, l, l0, m
<1>6. (365 * (year - 1970) + l - l0) + m + day - 1 = (NewYear(year) + m + day) - 1
  BY <1>0, <1>2, <1>3, <1>5
<1>7. fat_time_to_timestamp(date, time)
      = ((NewYear(year) + m + day) - 1) * 86400 + hour * 3600 + min * 60 + 2 * sec
  BY <1>0, <1>2, <1>4, <1>6
<1> QED  BY <1>7 DEF date, time, m, SecondsOf


\* The last seconds of the days that the run looks at are among them.
THEOREM Timestamps == Spec => []TimestampsArePosix
<1>1. TimestampsArePosix
  <2>1. ASSUME NEW year \in {y \in 1981..2037 : ~IsLeap(y)}, NEW month \in 1..12, NEW day \in {1, 28}
        PROVE  fat_time_to_timestamp((year - 1980) * 512 + month * 32 + day, 23 * 2048 + 59 * 32 + 29)
               = (NewYear(year) + YearDay[month] + day) * 86400 - 2
    <3>1. year \in Nat /\ year > 1980 /\ ~IsLeap(year) /\ day \in 1..31
      OBVIOUS
    <3>2. fat_time_to_timestamp(DateOf(year, month, day), TimeOf(23, 59, 29))
          = SecondsOf(year, month, day, 23, 59, 29)
      <4>1. /\ year \in OrdinaryYears /\ month \in Months /\ day \in DaysOfMonth
        BY <3>1 DEF OrdinaryYears, Months, DaysOfMonth
      <4>2. PICK hour \in Hours, min \in Minutes, sec \in HalfMinute : hour = 23 /\ min = 59 /\ sec = 29
        BY DEF Hours, Minutes, HalfMinute
      <4>3. fat_time_to_timestamp(DateOf(year, month, day), TimeOf(hour, min, sec))
            = SecondsOf(year, month, day, hour, min, sec)
        BY <4>1, Posix
      <4> QED  BY <4>2, <4>3
    <3>3. NewYear(year) \in Int
      <4>1. Cardinality({z \in 1980..year - 1 : IsLeap(z)}) \in Nat
        BY <3>1, LeapsAre
      <4> QED  BY <3>1, <4>1 DEF NewYear
    <3>4. YearDay[month] \in Nat
      <4>1. Days \in [1..12 -> Nat]
        BY DEF Days
      <4>2. \A k \in 1..12 : MonthsBefore(Days, k) \in Nat
        BY <4>1, FirstMonths
      <4>3. YearDay[month] = MonthsBefore(Days, month)
        BY YearDayIs
      <4> QED  BY <4>2, <4>3
    <3> DEFINE k == NewYear(year) + YearDay[month] + day
    <3>5. k \in Int
      BY <3>1, <3>3, <3>4
    <3> HIDE DEF k
    <3>6. (k - 1) * 86400 + 23 * 3600 + 59 * 60 + 2 * 29 = k * 86400 - 2
      BY <3>5
    <3>7. fat_time_to_timestamp(DateOf(year, month, day), TimeOf(23, 59, 29)) = k * 86400 - 2
      BY <3>2, <3>6 DEF k, SecondsOf
    <3> QED  BY <3>7 DEF k, DateOf, TimeOf
  <2> QED  BY <2>1 DEF TimestampsArePosix
<1> QED  BY <1>1, PTL

=============================================================================
