--------------------------------- MODULE Fat ---------------------------------
(***************************************************************************)
(* The FAT32 driver, fs/fat.c, on a partition of a disk that keeps the       *)
(* promises of BlockDevice: any call of it may fail, a write after some of   *)
(* its sectors.                                                             *)
(*                                                                         *)
(* A cell of a sector is the boot sector, an entry of the FAT, a directory   *)
(* entry or a byte of a file, each a record with its kind; SectorSize cells  *)
(* make a sector, whichever they are.  A name is the sequence of its parts,  *)
(* of 13 characters in the code, that a long-filename entry holds one of.    *)
(* Nothing in the driver moves fs_file.seek from 0, so the branches that skip *)
(* bytes and clusters are left out.                                         *)
(***************************************************************************)
EXTENDS Gpt, SequencesExt, TLC

CONSTANTS Volumes,              \* the file systems that the partition may hold
          Partition,            \* its entry in the partition table
          Clusters,             \* bound on the clusters of a volume: 2..Clusters + 1
          EOC,                  \* 0x0FFFFFF7
          Wrap,                 \* 2^32
          PastBound,            \* bound on the entries read past a cluster's end
          Paths, Sizes          \* what fopen, fread and fwrite are called with

ASSUME FatAssumption ==
    /\ {Clusters, EOC, Wrap, DiskSize} \subseteq Nat \ {0} /\ PastBound \in Nat
    /\ EOC > Clusters + 1 /\ DiskSize <= Wrap
    /\ Sizes \subseteq Nat /\ Paths \subseteq Seq(Seq(STRING) \ {<<>>})
    /\ Partition \in gpt_partition_entry

VARIABLES made,                 \* the volume that is on the disk, as it was made
          volume,               \* mountpoint->driver_data, the boot sector; NULL if none
          file,                 \* the open file; NULL
          pc,
          op,                   \* the call: [kind, path, size]
          cluster,
          i,                    \* components found, of the path
          e, lfn_entry,         \* fat32_search_dir and fat32_read_dir, in a cluster
          written,              \* bytes or entries done
          got,                  \* what the caller's buffer has received
          result,               \* what the last call returned
          failures              \* what the disk failed to do during it

callVars == <<cluster, i, e, lfn_entry, written, got>>
vars == <<deviceVars, made, volume, file, pc, op, callVars, result, failures>>

NULL == [kind |-> "null"]
END == [kind |-> "end"]
Attributes == {"READ_ONLY", "VOLUME_ID", "DIRECTORY", "ARCHIVE"}

\* Of a boot sector, the fields that the driver reads.
fat_boot_sector(b) ==
    /\ {b.sectors_per_cluster, b.reserved_sectors, b.fats} \subseteq Nat \ {0}
    /\ {b.sectors_per_fat, b.extended.sectors_per_fat} \subseteq Nat
    /\ b.extended.root_cluster \in 2..Clusters + 1

\* base and extension are the lengths of the two parts of the short name.
fat_file == [kind : {"file"}, name : Seq(STRING), base : 0..8, extension : 0..3,
             attributes : SUBSET Attributes, first_cluster : 0..Clusters + 1,
             size : Nat, date : Nat, time : Nat]

fat_long_filename == [kind : {"lfn"}, part : STRING]

\* mkfs and other systems leave boot sectors, a FAT and entries like that.
ASSUME VolumesAssumption ==
    \A v \in Volumes :
        /\ fat_boot_sector(v.bpb)
        /\ v.fat \in [0..Clusters + 1 -> Nat]
        /\ \A c \in DOMAIN v.entries :
              v.entries[c] \in Seq(fat_file \cup fat_long_filename \cup {[kind |-> "deleted"]})

-----------------------------------------------------------------------------
\* Geometry.
FatSize(b) == IF b.sectors_per_fat = 0 THEN b.extended.sectors_per_fat ELSE b.sectors_per_fat
FirstDataSector(b) == b.reserved_sectors + b.fats * FatSize(b)
FirstSector(b, c) == ((c - 2) * b.sectors_per_cluster + FirstDataSector(b)) % Wrap
FatSector(b, c) == b.reserved_sectors + c \div SectorSize
PerCluster(b) == b.sectors_per_cluster * SectorSize

\* The clusters that follow c on a volume, itself the 0th; EOC behind the last.
Follow(v, c) ==
    LET nth[k \in 0..Clusters] ==
            IF k = 0 THEN c ELSE IF nth[k - 1] < EOC THEN v.fat[nth[k - 1]] ELSE EOC
    IN  nth

\* The clusters of a file that its size tells to be there, as places in its chain.
Used(v, size) == {m \in 0..Clusters : m * PerCluster(v.bpb) < size}

\* A file has the clusters for its size, each once, and none of a directory.
Holds(v, first, size) ==
    LET nth == Follow(v, first)
    IN  /\ size <= Clusters * PerCluster(v.bpb)
        /\ \A m \in Used(v, size) : /\ nth[m] \in (2..Clusters + 1) \ DOMAIN v.entries
                                   /\ \A n \in Used(v, size) : nth[m] = nth[n] => m = n

\* A volume is intact: the FAT has an entry for each cluster, the numbers of the sectors
\* fit their type, and the files are whole.
ASSUME IntactAssumption ==
    \A v \in Volumes :
        /\ Clusters + 1 < FatSize(v.bpb) * SectorSize
        /\ FirstDataSector(v.bpb) + Clusters * v.bpb.sectors_per_cluster <= Wrap
        /\ \A c \in DOMAIN v.entries : \A n \in DOMAIN v.entries[c] :
              LET x == v.entries[c][n]
              IN  x.kind = "file" /\ "DIRECTORY" \notin x.attributes =>
                      Holds(v, x.first_cluster, x.size)

\* The directories of a volume are whole: their chains end, only their clusters lead to
\* their clusters, and they have entries for directories, "." and ".." among them (0
\* stands for the root), and for files with names.  So big a FAT32 volume has more than
\* two clusters of sectors before its data.
ASSUME DirectoriesAssumption ==
    \A v \in Volumes :
        /\ 2 * v.bpb.sectors_per_cluster <= FirstDataSector(v.bpb)
        /\ v.bpb.extended.root_cluster \in v.directories
        /\ v.directories \subseteq DOMAIN v.entries /\ DOMAIN v.entries \subseteq 2..Clusters + 1
        /\ \A d \in v.directories : Follow(v, d)[Clusters] >= EOC
        /\ \A c \in 0..Clusters + 1 :
              \/ v.fat[c] >= EOC
              \/ v.fat[c] <= Clusters + 1 /\ (v.fat[c] \in DOMAIN v.entries <=> c \in DOMAIN v.entries)
        /\ \A c \in DOMAIN v.entries :
              /\ Len(v.entries[c]) <= PerCluster(v.bpb)
              /\ \A n \in DOMAIN v.entries[c] :
                    LET x == v.entries[c][n]
                    IN  x.kind = "file" =>
                            /\ x.name # <<>>
                            /\ IF "DIRECTORY" \in x.attributes
                               THEN x.first_cluster \in v.directories \cup {0}
                               ELSE x.first_cluster \notin DOMAIN v.entries

\* A volume as it was made (external): its boot sector, the entry of each cluster
\* in the FAT, and what is in the clusters of its directories.  Elsewhere, and
\* around the partition, lie other bytes.
ByteAt(c, j) == [kind |-> "byte", of |-> "disk", k |-> c * 100 + j]

DataCell(v, c, j) ==
    IF c \notin DOMAIN v.entries THEN ByteAt(c, j)
    ELSE IF j < Len(v.entries[c]) THEN v.entries[c][j + 1] ELSE END

FatCell(v, c) == [kind |-> "next", cluster |-> IF c \in DOMAIN v.fat THEN v.fat[c] ELSE 0]

DiskOf(v) ==
    [s \in Sector |-> [b \in Cell |->
        LET r == s - Partition.start_sector
            f == r - v.bpb.reserved_sectors
            d == r - FirstDataSector(v.bpb)
            c == 2 + d \div v.bpb.sectors_per_cluster
        IN  IF r = 0 THEN [kind |-> "boot", bpb |-> v.bpb]
            ELSE IF f >= 0 /\ d < 0
                 THEN FatCell(v, (f % FatSize(v.bpb)) * SectorSize + b)
            ELSE IF d >= 0 /\ c \in 2..Clusters + 1
                 THEN DataCell(v, c, (d % v.bpb.sectors_per_cluster) * SectorSize + b)
            ELSE ByteAt(0, s)]]

Init ==
    /\ made \in Volumes
    /\ disk = DiskOf(made) /\ call = NoCall /\ answer = NoAnswer
    /\ volume = NULL /\ file = NULL
    /\ pc = "unmounted"
    /\ op = [kind |-> "none", path |-> <<>>, size |-> 0]
    /\ cluster = 0 /\ i = 0 /\ e = 0 /\ lfn_entry = <<>>
    /\ written = 0 /\ got = <<>>
    /\ result = NULL /\ failures = {}

-----------------------------------------------------------------------------
\* A call of the driver begins, and returns.  Bound: none begins after a write
\* that missed a FAT sector, which may have written anywhere.
Begins(kind, path, size) ==
    /\ pc = "idle" /\ ~(op.kind = "write" /\ "fat" \in failures)
    /\ op' = [kind |-> kind, path |-> path, size |-> size]
    /\ written' = 0 /\ got' = <<>> /\ i' = 0
    /\ result' = NULL /\ failures' = {}
    /\ UNCHANGED <<deviceVars, made, volume, e, lfn_entry>>

Returns(value) ==
    /\ pc' = "idle"
    /\ result' = [kind |-> op.kind, value |-> value]
    /\ cluster' = 0 /\ e' = 0 /\ lfn_entry' = <<>>
    /\ UNCHANGED <<deviceVars, made, volume, op, i, written, got>>

\* The disk has answered the call for which the driver waits at pc.
Answered(at) ==
    /\ pc = at /\ call = NoCall
    /\ failures' = IF answer.ok THEN failures
                   ELSE failures \cup {IF at = "chain" THEN "fat" ELSE "data"}

Asks(then) ==
    /\ pc' = then
    /\ UNCHANGED <<made, volume, file, op, result, failures>>

ReadClusterThen(then) ==
    /\ gpt_read_partition(Partition, FirstSector(volume, cluster), volume.sectors_per_cluster)
    /\ Asks(then)

-----------------------------------------------------------------------------
Mount ==
    /\ pc = "unmounted"
    /\ gpt_read_partition(Partition, 0, 1)
    /\ Asks("mounting")
    /\ UNCHANGED callVars

MountReturns ==
    /\ Answered("mounting")
    /\ volume' = IF answer.ok THEN answer.data[0][0].bpb ELSE NULL
    /\ pc' = IF answer.ok THEN "idle" ELSE "unmounted"
    /\ UNCHANGED <<deviceVars, made, file, op, callVars, result>>

Unmount ==
    /\ pc = "idle" /\ file = NULL
    /\ volume' = NULL /\ pc' = "unmounted" /\ result' = NULL /\ got' = <<>>
    /\ UNCHANGED <<deviceVars, made, file, op, cluster, i, e, lfn_entry, written, failures>>

-----------------------------------------------------------------------------
\* fat32_next_cluster.  The entry of a cluster may be anything when its sector is
\* no part of the FAT, or could not be read, as nobody asks: then it is what the
\* stack held.
AnyCluster == 0..EOC
NextOf(cell) == IF cell.kind = "next" THEN {cell.cluster} ELSE AnyCluster

NextCluster ==
    /\ pc = "next"
    /\ gpt_read_partition(Partition, FatSector(volume, cluster), 1)
    /\ Asks("chain")
    /\ UNCHANGED callVars

\* The loop it was called in goes on.
ChainRead ==
    /\ Answered("chain")
    /\ cluster' \in IF answer.ok THEN NextOf(answer.data[0][cluster % SectorSize])
                    ELSE AnyCluster
    /\ pc' = op.kind
    /\ UNCHANGED <<deviceVars, made, volume, file, op, i, e, lfn_entry, written, got, result>>

-----------------------------------------------------------------------------
\* The entries of a directory, which fat32_search_dir and fat32_read_dir walk.

\* fat_read_lfn_entry: the part goes before the ones read so far.
fat_read_lfn_entry(entry, buf) == <<entry.part>> \o buf

\* The name put together from the fields of an entry.  An extension is copied with the
\* spaces behind it, up to a zero byte, which an attribute is not; and the 13 bytes copied
\* before it end with the base only if there are two spaces or more behind that.
ReadsWhole(f) == f.extension = 3 /\ f.attributes = {} /\ f.base < 7
ShortName(f) == IF f.extension = 0 \/ ReadsWhole(f) THEN f.name ELSE <<"GARBLED">>
NameOf(f) == IF lfn_entry # <<>> THEN lfn_entry ELSE ShortName(f)

JunkFile == [kind |-> "file", name |-> <<>>, base |-> 0, extension |-> 0, attributes |-> {},
             first_cluster |-> 0, size |-> 0, date |-> 0, time |-> 0]

\* What the e-th entry of the buffer may be: there may be anything behind the
\* buffer, and in a cluster that is no directory's, but no name that a path has.
EntriesAt(data) ==
    IF e >= PerCluster(volume) + PastBound THEN {END}
    ELSE IF e >= PerCluster(volume) THEN {END, JunkFile}
    ELSE LET cell == data[e \div SectorSize][e % SectorSize]
         IN  IF cell.kind \in {"end", "deleted", "lfn", "file"} THEN {cell} ELSE {END, JunkFile}

EnterCluster ==
    /\ ReadClusterThen("entries")
    /\ e' = 0 /\ lfn_entry' = <<>>
    /\ UNCHANGED <<cluster, i, written, got>>

SkipEntry(x) ==
    /\ e' = e + 1
    /\ lfn_entry' = IF x.kind = "lfn" THEN fat_read_lfn_entry(x, lfn_entry)
                    ELSE IF x.kind = "deleted" THEN lfn_entry ELSE <<>>
    /\ UNCHANGED <<cluster, i, pc, file, result>>

\* Faulty: the same cluster again.
MutEntriesEnd ==
    /\ pc' = op.kind /\ e' = 0 /\ lfn_entry' = <<>>
    /\ UNCHANGED <<cluster, i, written, got, file, result>>

\* entry[0] == 0: the next cluster.
EntriesEnd ==
    /\ pc' = "next" /\ e' = 0 /\ lfn_entry' = <<>>
    /\ UNCHANGED <<cluster, i, written, got, file, result>>

-----------------------------------------------------------------------------
\* fat32_open.

fs_file(f) == [kind |-> "open", directory |-> "DIRECTORY" \in f.attributes, size |-> f.size,
               record |-> f]

RootRecord == [JunkFile EXCEPT !.attributes = {"DIRECTORY"},
                               !.first_cluster = volume.extended.root_cluster]

Open(path) ==
    /\ file = NULL
    /\ Begins("open", path, 0)
    /\ cluster' = volume.extended.root_cluster
    /\ pc' = "open"
    /\ UNCHANGED file

OpenRoot ==
    /\ pc = "open" /\ op.path = <<>>
    /\ file' = fs_file(RootRecord)
    /\ Returns(1)
    /\ UNCHANGED failures

SearchCluster ==
    /\ pc = "open" /\ op.path # <<>> /\ cluster < EOC
    /\ EnterCluster

OpenFails ==
    /\ Returns(0)
    /\ UNCHANGED file

SearchEnds ==
    /\ pc = "open" /\ op.path # <<>> /\ cluster >= EOC
    /\ OpenFails
    /\ UNCHANGED failures

\* Faulty: the first characters decide.
MutMatches(f) == /\ NameOf(f) # <<>> /\ NameOf(f)[1] = op.path[i + 1][1]
                 /\ "VOLUME_ID" \notin f.attributes

Matches(f) == NameOf(f) = op.path[i + 1] /\ "VOLUME_ID" \notin f.attributes

\* The search goes on in the first cluster of what was found, whatever it is.
Found(f) ==
    IF i + 1 = Len(op.path) THEN file' = fs_file(f) /\ Returns(1)
    ELSE /\ i' = i + 1 /\ cluster' = f.first_cluster /\ pc' = "open"
         /\ e' = 0 /\ lfn_entry' = <<>>
         /\ UNCHANGED <<deviceVars, made, volume, op, written, got, file, result>>

Search ==
    /\ op.kind = "open" /\ Answered("entries")
    /\ IF ~answer.ok THEN OpenFails
       ELSE \E x \in EntriesAt(answer.data) :
               IF x.kind = "file" /\ Matches(x) THEN Found(x)
               ELSE /\ IF x = END THEN EntriesEnd
                       ELSE SkipEntry(x) /\ UNCHANGED <<written, got>>
                    /\ UNCHANGED <<deviceVars, made, volume, op>>

Close ==
    /\ pc = "idle" /\ file # NULL
    /\ file' = NULL /\ result' = NULL /\ got' = <<>>
    /\ UNCHANGED <<deviceVars, made, volume, pc, op, cluster, i, e, lfn_entry, written, failures>>

-----------------------------------------------------------------------------
\* fat32_read_dir, with room for so many entries.

MonthDays(year) ==
    [<<31, 28, 31, 30, 31, 30, 31, 31, 30, 31, 30, 31>>
        EXCEPT ![2] = IF (year % 4 = 0 /\ year % 100 # 0) \/ year % 400 = 0 THEN 29 ELSE 28]

\* The fields of a date and of a time, of 16 bits each.
FAT_DATE_YEAR(date) == date \div 512 + 1980
FAT_DATE_MONTH(date) == (date \div 32) % 16
FAT_DATE_DAY(date) == date % 32
FAT_TIME_HOUR(time) == time \div 2048
FAT_TIME_MIN(time) == (time \div 32) % 64

\* Faulty: in seconds.
MutTimeSec(time) == time % 32

\* The unit is two seconds.
FAT_TIME_SEC(time) == (time % 32) * 2

\* Leap days from the year 1 to the given one, both included.
Leaps(year) == year \div 4 - year \div 100 + year \div 400

\* The days of the months before the given one.
DaysBefore(year, month) == MapThenSumSet(LAMBDA m : MonthDays(year)[m], 1..month - 1)

fat_time_to_timestamp(date, time) ==
    LET year == FAT_DATE_YEAR(date)
        days_years == 365 * (year - 1970) + Leaps(year) - Leaps(1969)
        days_months == DaysBefore(year, FAT_DATE_MONTH(date))
    IN  (days_years + days_months + FAT_DATE_DAY(date) - 1) * 86400
            + FAT_TIME_HOUR(time) * 3600 + FAT_TIME_MIN(time) * 60 + FAT_TIME_SEC(time)

\* mode is set bit by bit in memory that nobody cleared: that of a directory may be there
\* for a file.
fs_file_info(name, f) ==
    [name |-> name, directory |-> IF "DIRECTORY" \in f.attributes THEN {TRUE} ELSE BOOLEAN,
     writable |-> "READ_ONLY" \notin f.attributes, size |-> f.size,
     modification_time |-> fat_time_to_timestamp(f.date, f.time)]

ReadDir(room) ==
    /\ file # NULL /\ file.directory
    /\ Begins("list", <<>>, room)
    /\ cluster' = file.record.first_cluster
    /\ pc' = "list"
    /\ UNCHANGED file

ListCluster ==
    /\ pc = "list" /\ cluster < EOC /\ written < op.size
    /\ EnterCluster

ListEnds ==
    /\ pc = "list" /\ (cluster >= EOC \/ written >= op.size)
    /\ Returns(written)
    /\ UNCHANGED <<file, failures>>

\* Faulty: the name of an entry is kept for the next.
MutListFile(f) ==
    /\ got' = Append(got, fs_file_info(NameOf(f), f)) /\ written' = written + 1
    /\ pc' = IF written >= op.size THEN "corrupt" ELSE pc
    /\ e' = e + 1
    /\ UNCHANGED <<cluster, i, file, result, lfn_entry>>

\* The room is looked at between clusters only: within one, the entry is written
\* behind the caller's buffer.
ListFile(f) ==
    /\ got' = Append(got, fs_file_info(NameOf(f), f)) /\ written' = written + 1
    /\ pc' = IF written >= op.size THEN "corrupt" ELSE pc
    /\ e' = e + 1 /\ lfn_entry' = <<>>
    /\ UNCHANGED <<cluster, i, file, result>>

List ==
    /\ op.kind = "list" /\ Answered("entries")
    /\ IF ~answer.ok THEN Returns(0) /\ UNCHANGED file
       ELSE \E x \in EntriesAt(answer.data) :
               /\ IF x = END THEN EntriesEnd
                  ELSE IF x.kind = "file" THEN ListFile(x)
                  ELSE SkipEntry(x) /\ UNCHANGED <<written, got>>
               /\ UNCHANGED <<deviceVars, made, volume, op>>

-----------------------------------------------------------------------------
\* fat32_read_file and fat32_write.

\* The local variable size.
Size == IF op.size > file.size THEN file.size ELSE op.size

\* Faulty: whole clusters.
MutPortion == PerCluster(volume)

\* The bytes of the next cluster.
Portion == IF Size - written < PerCluster(volume) THEN Size - written ELSE PerCluster(volume)

ReadFile(size) ==
    /\ file # NULL /\ ~file.directory
    /\ Begins("read", <<>>, size)
    /\ cluster' = file.record.first_cluster
    /\ pc' = "read"
    /\ UNCHANGED file

Transferring == cluster < EOC /\ written < Size

ReadCluster ==
    /\ pc = "read" /\ Transferring
    /\ ReadClusterThen("copy")
    /\ UNCHANGED callVars

CopyCluster ==
    /\ Answered("copy")
    /\ IF ~answer.ok THEN Returns(0)
       ELSE /\ got' = got \o [k \in 1..Portion |->
                                answer.data[(k - 1) \div SectorSize][(k - 1) % SectorSize]]
            /\ written' = written + Portion
            /\ pc' = "next"
            /\ UNCHANGED <<deviceVars, made, volume, op, cluster, i, e, lfn_entry, result>>
    /\ UNCHANGED file

ReadEnds ==
    /\ pc = "read" /\ ~Transferring
    /\ Returns(written)
    /\ UNCHANGED <<file, failures>>

\* The caller's buffer.
inbuf == [k \in 0..op.size |-> [kind |-> "byte", of |-> "caller", k |-> k]]

WriteFile(size) ==
    /\ file # NULL /\ ~file.directory
    /\ Begins("write", <<>>, size)
    /\ cluster' = file.record.first_cluster
    /\ pc' = "write"
    /\ UNCHANGED file

WriteDirectory(size) ==
    /\ pc = "idle" /\ file # NULL /\ file.directory
    /\ result' = [kind |-> "write", value |-> 0]
    /\ op' = [kind |-> "write", path |-> <<>>, size |-> size]
    /\ written' = 0 /\ got' = <<>> /\ failures' = {}
    /\ UNCHANGED <<deviceVars, made, volume, file, pc, cluster, i, e, lfn_entry>>

\* gpt_write_partition_offset, with offset 0, up to its read ...
WriteCluster ==
    /\ pc = "write" /\ Transferring
    /\ IF Refused(0, volume.sectors_per_cluster, Portion)
       THEN Returns(0) /\ UNCHANGED <<file, failures>>
       ELSE ReadClusterThen("patch") /\ UNCHANGED callVars

\* ... and from there: every cluster gets the beginning of the caller's buffer.
PatchCluster ==
    /\ Answered("patch")
    /\ IF ~answer.ok THEN Returns(0)
       ELSE /\ gpt_write_back(Partition, FirstSector(volume, cluster),
                              volume.sectors_per_cluster, 0, inbuf, Portion)
            /\ pc' = "stored"
            /\ UNCHANGED <<made, volume, op, callVars, result>>
    /\ UNCHANGED file

Stored ==
    /\ Answered("stored")
    /\ IF ~answer.ok THEN Returns(0)
       ELSE /\ written' = written + Portion /\ pc' = "next"
            /\ UNCHANGED <<deviceVars, made, volume, op, cluster, i, e, lfn_entry, got, result>>
    /\ UNCHANGED file

\* The record of the open file takes the size of the write; the directory on the
\* disk and fs_file.size do not.
WriteEnds ==
    /\ pc = "write" /\ ~Transferring
    /\ file' = [file EXCEPT !.record.size = Size]
    /\ Returns(written)
    /\ UNCHANGED failures

-----------------------------------------------------------------------------
Driver ==
    \/ Mount \/ MountReturns \/ Unmount
    \/ \E p \in Paths : Open(p)
    \/ OpenRoot \/ SearchCluster \/ Search \/ SearchEnds
    \/ Close
    \/ \E n \in Sizes : ReadDir(n) \/ ReadFile(n) \/ WriteFile(n) \/ WriteDirectory(n)
    \/ ListCluster \/ List \/ ListEnds
    \/ ReadCluster \/ CopyCluster \/ ReadEnds
    \/ WriteCluster \/ PatchCluster \/ Stored \/ WriteEnds
    \/ NextCluster \/ ChainRead

Next ==
    \/ Driver
    \/ Device /\ call # NoCall
       /\ UNCHANGED <<made, volume, file, pc, op, callVars, result, failures>>

\* The driver runs on, and the disk answers.
Fairness ==
    /\ WF_vars(pc \notin {"idle", "unmounted"} /\ Driver)
    /\ WF_vars(Next /\ call # NoCall)

Spec == Init /\ [][Next]_vars /\ Fairness

-----------------------------------------------------------------------------
\* What the volume is, read off as the format means it.

\* The places of the entries in a directory, whose first cluster is d: which cluster of
\* the chain, and which entry in it.
Places(d) ==
    LET nth == Follow(made, d)
    IN  {p \in (0..Clusters - 1) \X (1..PerCluster(made.bpb)) :
            nth[p[1]] < EOC /\ p[2] \in DOMAIN made.entries[nth[p[1]]]}

Precedes(p, q) == p[1] < q[1] \/ (p[1] = q[1] /\ p[2] < q[2])

ClusterAt(d, p) == Follow(made, d)[p[1]]
EntryAt(d, p) == made.entries[ClusterAt(d, p)][p[2]]
Files(d) == {p \in Places(d) : EntryAt(d, p).kind = "file"}

\* The long-filename entries right before the n-th entry of a cluster begin with the m-th.
IsLong(c, n) == made.entries[c][n].kind = "lfn"
StartsRun(c, n, m) == (\A k \in m..n - 1 : IsLong(c, k)) /\ (m > 1 => ~IsLong(c, m - 1))

\* The name that they spell, the last one first.
Spelled(c, n, m) == [j \in 1..n - m |-> made.entries[c][n - j].part]
LongName(c, n) == Spelled(c, n, CHOOSE m \in 1..n : StartsRun(c, n, m))

TrueName(d, p) ==
    LET long == LongName(ClusterAt(d, p), p[2])
    IN  IF long = <<>> THEN EntryAt(d, p).name ELSE long

\* The driver can put the names together: no long name is spread over two clusters, or
\* left behind by a file that was deleted, and a short one has no extension or one of
\* three characters behind a base of six at most, and no attribute.
PlainVolume ==
    \A c \in DOMAIN made.entries : \A n \in DOMAIN made.entries[c] :
        LET x == made.entries[c][n]
        IN  /\ x.kind = "lfn" => /\ n + 1 \in DOMAIN made.entries[c]
                                 /\ made.entries[c][n + 1].kind \in {"lfn", "file"}
            /\ x.kind = "file" /\ ~(x.extension = 0 \/ ReadsWhole(x)) =>
                  n > 1 /\ IsLong(c, n - 1)

Named(d, name) == {p \in Files(d) : TrueName(d, p) = name
                                    /\ "VOLUME_ID" \notin EntryAt(d, p).attributes}

First(S) == CHOOSE p \in S : \A q \in S : ~Precedes(q, p)

Lookup(d, name) == IF Named(d, name) = {} THEN NULL ELSE EntryAt(d, First(Named(d, name)))

\* What a path leads to, name by name: from the root, through directories, where the
\* cluster 0 stands for the root; NULL for nowhere.
Root == [JunkFile EXCEPT !.attributes = {"DIRECTORY"},
                         !.first_cluster = made.bpb.extended.root_cluster]

IsDirectory(f) == f # NULL /\ "DIRECTORY" \in f.attributes

Onward(f, name) ==
    IF IsDirectory(f)
    THEN Lookup(IF f.first_cluster = 0 THEN Root.first_cluster ELSE f.first_cluster, name)
    ELSE NULL

Reached(path) ==
    LET at[k \in 0..Len(path)] == IF k = 0 THEN Root ELSE Onward(at[k - 1], path[k])
    IN  at

\* It goes on after a ".." that leads up to the root.
PastParent(path) ==
    \E k \in 1..Len(path) - 1 :
        IsDirectory(Reached(path)[k]) /\ Reached(path)[k].first_cluster = 0

\* On a volume of which the driver can read every name, a path is opened exactly if
\* it leads to something, through directories only, and what is opened is that;
\* with deleted entries, labels, long names and directories of several clusters,
\* behind whose buffers other memory is read.  A path is not opened only if it is
\* not there, the disk failed, or it goes on after the ".." of a directory in the root,
\* as the driver takes the cluster 0 that is in it for a cluster.
OpensWhatIsNamed ==
    result.kind = "open" /\ failures = {} /\ PlainVolume /\ ~PastParent(op.path) =>
        LET f == Reached(op.path)[Len(op.path)]
        IN  IF result.value = 0 THEN f = NULL ELSE f # NULL /\ file = fs_file(f)

\* Where the k-th byte of the open file lies: sector and place in it.
Place(k) ==
    LET b == made.bpb
        s == FirstSector(b, Follow(made, file.record.first_cluster)[k \div PerCluster(b)])
                 + (k % PerCluster(b)) \div SectorSize
    IN  <<Partition.start_sector + s, k % SectorSize>>

AtPlace(k) == disk[Place(k)[1]][Place(k)[2]]

\* A read or write of which no sector failed moves as many bytes as were asked for
\* and the file has; a read those of the file's chain in order, a write the
\* caller's to the same places, up to the end of the first cluster (behind it the
\* code repeats the beginning of the caller's buffer).  A data sector that failed
\* makes the call return 0.
TransfersMatch ==
    /\ result.kind \in {"read", "write"} /\ file # NULL /\ ~file.directory =>
          IF "data" \in failures THEN result.value = 0
          ELSE failures = {} =>
              /\ result.value = IF op.size < file.size THEN op.size ELSE file.size
              /\ result.kind = "read" => \A k \in 1..result.value : got[k] = AtPlace(k - 1)
              /\ result.kind = "write" =>
                    \A k \in 0..result.value - 1 :
                        k < PerCluster(made.bpb) => AtPlace(k) = inbuf[k]

\* Whatever fails, the bytes on the disk that change are bytes of the open file that
\* the caller asked to write: not the rest of their sector, nor other files, the
\* FAT, directories or what lies around the partition.  Only a FAT sector that
\* cannot be read sends a write elsewhere.
WritesOnlyTheFile ==
    [][\A s \in Sector : \A b \in Cell :
          disk'[s][b] # disk[s][b] =>
              \/ "fat" \in failures
              \/ /\ op.kind = "write"
                 /\ \E k \in 0..file.size - 1 : k < op.size /\ Place(k) = <<s, b>>]_vars

\* What a listing tells of an entry, and which entries of the caller's buffer are no junk.
Info(d, p) == fs_file_info(TrueName(d, p), EntryAt(d, p))
Infos == {k \in DOMAIN got : got[k].name # JunkFile.name}

\* A listing gives the entries of the directory, in order, each with its own name and
\* values, apart from junk that it reads behind a full cluster, and all of them if it had
\* room left; the caller's buffer is overrun only if the entries and the junk are more than
\* fit.  (The ".." of a directory in the root lists cluster 0 instead.)
ListsEntries ==
    LET d     == file.record.first_cluster
        files == Files(d)
    IN  file # NULL /\ op.kind = "list" /\ failures = {} /\ PlainVolume /\ d # 0 =>
            /\ \A k \in Infos : \E p \in files :
                  /\ got[k] = Info(d, p)
                  /\ Cardinality({j \in Infos : j < k}) = Cardinality({q \in files : Precedes(q, p)})
            /\ result.kind = "list" /\ result.value < op.size => Cardinality(Infos) = Cardinality(files)
            /\ pc = "corrupt" =>
                  op.size < Cardinality(files)
                             + PastBound * Cardinality({k \in 0..Clusters : Follow(made, d)[k] < EOC})

\* A call of the driver returns, unless a FAT sector could not be read or the
\* listing has overrun its buffer: the walk along a chain, which nothing bounds,
\* comes to its end.
CallsReturn ==
    pc \notin {"idle", "unmounted"} ~> (pc \in {"idle", "unmounted", "corrupt"} \/ "fat" \in failures)

\* The days from 1970 to a new year, from a new year to a month.
IsLeap(year) == (year % 4 = 0 /\ year % 100 # 0) \/ year % 400 = 0
NewYear(year) == 3652 + 365 * (year - 1980) + Cardinality({y \in 1980..year - 1 : IsLeap(y)})
Days == <<31, 28, 31, 30, 31, 30, 31, 31, 30, 31, 30, 31>>
YearDay[m \in 1..12] == IF m = 1 THEN 0 ELSE YearDay[m - 1] + Days[m - 1]

\* "typedef uint64_t timestamp; // POSIX time" (fs.h:52): in years that are no leap
\* years a date's timestamp is the number of seconds since 1970, counted day by day from
\* 1980-01-01.  (In leap years it is a day ahead.)  It depends on no variable and is
\* looked at before anything has happened.
TimestampsArePosix ==
    pc = "unmounted" /\ op.kind = "none" /\ call = NoCall /\ answer = NoAnswer =>
        \A year \in {y \in 1981..2037 : ~IsLeap(y)}, month \in 1..12, day \in {1, 28} :
            fat_time_to_timestamp((year - 1980) * 512 + month * 32 + day, 23 * 2048 + 59 * 32 + 29)
            = (NewYear(year) + YearDay[month] + day) * 86400 - 2
=============================================================================
