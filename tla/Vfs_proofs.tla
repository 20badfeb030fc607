------------------------------ MODULE Vfs_proofs ------------------------------
(***************************************************************************)
(* The mount table is exact, and what fopen resolves is the deepest and      *)
(* newest mount above the path, for any names, depths, addresses and bounds. *)
(* create_path gives the names of a string, of any length and of any letters. *)
(***************************************************************************)
EXTENDS Vfs, Paths, FiniteSetTheorems, SequenceTheorems, WellFoundedInduction, TLAPS

TableType ==
    /\ mounted_filesystems \in Seq(Addresses \cup {NULL})
    /\ live \subseteq Addresses
    /\ \A a \in live : mp[a].path \in Path
    /\ call \in [path : Path, i : Nat, mountpoint : Addresses \cup {NULL}]

Depth(k) == Len(mp[mounted_filesystems[k]].path)

\* The entry that a path belongs to, as Belongs chooses it.
Best(path, n, k) ==
    /\ k \in Covering(path, n)
    /\ \A j \in Covering(path, n) : Depth(j) < Depth(k) \/ (Depth(j) = Depth(k) /\ j <= k)

\* resolve_mountpoint's mountpoint is the best of the entries it has passed.
LoopInv ==
    pc = "resolve" =>
        /\ call.i \in 1..Len(mounted_filesystems) + 1
        /\ \/ Covering(call.path, call.i - 1) = {} /\ call.mountpoint = NULL
           \/ \E k \in Covering(call.path, call.i - 1) :
                 Best(call.path, call.i - 1, k) /\ call.mountpoint = mounted_filesystems[k]

IInv == TableType /\ TableExact /\ LoopInv

-----------------------------------------------------------------------------
\* Paths are sequences.
LEMMA PathIsSeq == \A p \in Path : p \in Seq(Names) /\ Len(p) \in Nat
BY VfsAssumption DEF Path

\* The table without its i-th entry.
LEMMA RemovedEntries ==
  ASSUME NEW S, NEW s \in Seq(S), NEW i \in 1..Len(s)
  PROVE  /\ Removed(s, i) \in Seq(S)
         /\ Len(Removed(s, i)) = Len(s) - 1
         /\ \A k \in 1..Len(s) - 1 : Removed(s, i)[k] = IF k < i THEN s[k] ELSE s[k + 1]
<1> DEFINE a == SubSeq(s, 1, i - 1)
           b == SubSeq(s, i + 1, Len(s))
<1>1. /\ a \in Seq(S) /\ Len(a) = i - 1
      /\ \A k \in 1..i - 1 : a[k] = s[k]
  <2>1. \A k \in 1..i - 1 : s[k] \in S
    BY ElementOfSeq, LenProperties
  <2>2. i - 1 \in Int /\ 1 \in Int
    BY LenProperties
  <2> QED  BY <2>1, <2>2, SubSeqProperties, LenProperties
<1>2. /\ b \in Seq(S) /\ Len(b) = Len(s) - i
      /\ \A k \in 1..Len(s) - i : b[k] = s[i + k]
  <2>1. \A k \in i + 1..Len(s) : s[k] \in S
    BY ElementOfSeq, LenProperties
  <2>2. i + 1 \in Int /\ Len(s) \in Int
    BY LenProperties
  <2> QED  BY <2>1, <2>2, SubSeqProperties, LenProperties
<1>3. Removed(s, i) = a \o b
  BY DEF Removed, RemoveAt
<1> HIDE DEF a, b
<1>4. /\ a \o b \in Seq(S)
      /\ Len(a \o b) = Len(a) + Len(b)
      /\ \A k \in 1..Len(a) + Len(b) : (a \o b)[k] = IF k <= Len(a) THEN a[k] ELSE b[k - Len(a)]
  BY <1>1, <1>2, ConcatProperties
<1>5. Len(s) \in Nat
  BY LenProperties
<1> QED  BY <1>1, <1>2, <1>3, <1>4, <1>5

\* A prefix and the rest, put together.
LEMMA PrefixAndRest ==
  ASSUME NEW p \in Seq(Names), NEW q \in Seq(Names), IsPrefix(p, q)
  PROVE  q = p \o SubSeq(q, Len(p) + 1, Len(q))
<1>1. Len(p) \in Nat /\ Len(q) \in Nat /\ Len(p) <= Len(q)
  BY LenProperties DEF IsPrefix
<1>2. p = SubSeq(q, 1, Len(p))
  BY SubSeqFull DEF IsPrefix
<1>3. SubSeq(q, 1, Len(p)) \o SubSeq(q, Len(p) + 1, Len(q)) = SubSeq(q, 1, Len(q))
  <2>1. /\ 1 \in 1..Len(q) + 1
        /\ Len(p) \in 1 - 1..Len(q)
        /\ Len(q) \in Len(p)..Len(q)
    BY <1>1
  <2> QED  BY <2>1, ConcatAdjacentSubSeq
<1> QED  BY <1>2, <1>3, SubSeqFull

\* The entries of a range.
LEMMA RangeOf == \A s : Range(s) = {s[x] : x \in DOMAIN s}
BY DEF Range

\* In an exact table every entry is NULL or an allocated mountpoint.
LEMMA EntriesLive ==
  ASSUME TableType, TableExact, NEW k \in 1..Len(mounted_filesystems)
  PROVE  mounted_filesystems[k] = NULL \/ mounted_filesystems[k] \in live
BY LenProperties, RangeOf DEF TableType, TableExact

\* The best entry is unique, so that Belongs chooses it.
LEMMA BestIsChosen ==
  ASSUME TableType, TableExact, NEW path \in Path, NEW n \in 0..Len(mounted_filesystems),
         NEW k, Best(path, n, k)
  PROVE  Belongs(path, n) = mounted_filesystems[k]
<1>1. \A j \in Covering(path, n) : j \in Nat /\ Depth(j) \in Nat
  <2> SUFFICES ASSUME NEW j \in Covering(path, n) PROVE j \in Nat /\ Depth(j) \in Nat
    OBVIOUS
  <2>1. j \in 1..Len(mounted_filesystems) /\ mounted_filesystems[j] # NULL
    BY LenProperties DEF Covering, TableType
  <2>2. mounted_filesystems[j] \in live
    BY <2>1, EntriesLive
  <2> QED  BY <2>1, <2>2, PathIsSeq, LenProperties DEF TableType, Depth
<1>2. \A j : Best(path, n, j) => j = k
  BY <1>1 DEF Best
<1>3. Belongs(path, n) = mounted_filesystems[CHOOSE j \in Covering(path, n) : Best(path, n, j)]
  BY DEF Belongs, Best, Depth
<1> QED  BY <1>2, <1>3 DEF Best

-----------------------------------------------------------------------------
LEMMA InitIInv == Init => IInv
<1> SUFFICES ASSUME Init PROVE IInv
  OBVIOUS
<1>1. mounted_filesystems = <<>> /\ mp = <<>> /\ pc = "idle" /\ call = NoCall
  BY DEF Init
<1>2. DOMAIN mp = {}
  BY <1>1
<1>3. root_path \in Path
  BY VfsAssumption DEF Path, root_path
<1>4. TableType
  BY <1>1, <1>2, <1>3 DEF TableType, live, NoCall
<1>5. TableExact
  <2>1. Range(mounted_filesystems) = {}
    BY <1>1, RangeOf
  <2> QED  BY <1>1, <1>2, <2>1 DEF TableExact, live
<1>6. LoopInv
  BY <1>1 DEF LoopInv
<1> QED  BY <1>4, <1>5, <1>6 DEF IInv

\* Steps that leave the table, the mountpoints and the loop as they are.
LEMMA TableUnchanged ==
  ASSUME IInv, UNCHANGED <<mounted_filesystems, mp, call>>, pc' # "resolve"
  PROVE  IInv'
BY DEF IInv, TableType, TableExact, LoopInv, live

LEMMA MountStep ==
  ASSUME IInv, NEW path \in Path, NEW handler, Mount(path, handler)
  PROVE  IInv'
<1> DEFINE table == mounted_filesystems
<1>1. PICK a \in Addresses \ live :
        /\ mp' = [b \in live \cup {a} |->
                     IF b = a THEN [path |-> path, handler |-> handler] ELSE mp[b]]
        /\ mounted_filesystems' = Append(mounted_filesystems, a)
  BY DEF Mount
<1>2. /\ table \in Seq(Addresses \cup {NULL}) /\ a \in Addresses \cup {NULL}
      /\ Len(table) \in Nat
  BY LenProperties DEF IInv, TableType
<1>3. /\ table' \in Seq(Addresses \cup {NULL})
      /\ Len(table') = Len(table) + 1 /\ DOMAIN table' = 1..Len(table) + 1
      /\ DOMAIN table = 1..Len(table)
      /\ \A k \in 1..Len(table) : table'[k] = table[k]
      /\ table'[Len(table) + 1] = a
  BY <1>1, <1>2, AppendProperties, LenProperties
<1>4. live' = live \cup {a}
  BY <1>1 DEF live
<1>5. pc' # "resolve" /\ call' = call
  BY DEF Mount
<1>6. TableType'
  <2>1. \A b \in live' : mp'[b].path \in Path
    BY <1>1, <1>4 DEF IInv, TableType
  <2> QED  BY <1>3, <1>4, <1>5, <2>1 DEF IInv, TableType
<1>7. TableExact'
  <2>1. Range(table) \ {NULL} = live
    BY DEF IInv, TableExact
  <2>2. Range(table') = Range(table) \cup {a}
    BY <1>2, <1>3, RangeOf
  <2>3. a # NULL /\ a \notin live
    BY VfsAssumption
  <2>4. Range(table') \ {NULL} = live'
    BY <1>4, <2>1, <2>2, <2>3
  <2>5. \A k \in 1..Len(table) : table[k] # a
    BY <1>3, <2>1, <2>3, RangeOf
  <2>6. \A i, j \in DOMAIN table : table[i] = table[j] => i = j \/ table[i] = NULL
    BY DEF IInv, TableExact
  <2>7. \A i, j \in DOMAIN table' : table'[i] = table'[j] => i = j \/ table'[i] = NULL
    BY <1>2, <1>3, <2>5, <2>6
  <2> QED  BY <2>4, <2>7 DEF TableExact
<1>8. LoopInv'
  BY <1>5 DEF LoopInv
<1> QED  BY <1>6, <1>7, <1>8 DEF IInv

LEMMA MountFailsStep ==
  ASSUME IInv, NEW path, MountFails(path)
  PROVE  IInv'
<1> DEFINE table == mounted_filesystems
<1>1. table' = Append(table, NULL) /\ UNCHANGED <<mp, pc, call>> /\ pc = "idle"
  BY DEF MountFails
<1>2. table \in Seq(Addresses \cup {NULL}) /\ NULL \in Addresses \cup {NULL} /\ Len(table) \in Nat
  BY LenProperties DEF IInv, TableType
<1>3. /\ table' \in Seq(Addresses \cup {NULL})
      /\ DOMAIN table' = 1..Len(table) + 1
      /\ DOMAIN table = 1..Len(table)
      /\ \A k \in 1..Len(table) : table'[k] = table[k]
      /\ table'[Len(table) + 1] = NULL
  BY <1>1, <1>2, AppendProperties, LenProperties
<1>4. TableType'
  BY <1>1, <1>3 DEF IInv, TableType, live
<1>5. TableExact'
  <2>1. Range(table') = Range(table) \cup {NULL}
    BY <1>2, <1>3, RangeOf
  <2>2. Range(table') \ {NULL} = live'
    BY <1>1, <2>1 DEF IInv, TableExact, live
  <2>3. \A i, j \in DOMAIN table : table[i] = table[j] => i = j \/ table[i] = NULL
    BY DEF IInv, TableExact
  <2>4. \A i, j \in DOMAIN table' : table'[i] = table'[j] => i = j \/ table'[i] = NULL
    BY <1>2, <1>3, <2>3
  <2> QED  BY <2>2, <2>4 DEF TableExact
<1>6. LoopInv'
  BY <1>1 DEF LoopInv
<1> QED  BY <1>4, <1>5, <1>6 DEF IInv

\* Where unmount stops.
LEMMA UnmountedEntry ==
  ASSUME NEW path, Unmounted(path) # 0
  PROVE  Unmounted(path) \in DOMAIN mounted_filesystems
BY DEF Unmounted

LEMMA UnmountStep ==
  ASSUME IInv, NEW path \in Path, Unmount(path)
  PROVE  IInv'
<1> DEFINE table == mounted_filesystems
           i == Unmounted(path)
<1>1. CASE UNCHANGED vars
  <2>1. pc' # "resolve"
    BY <1>1 DEF Unmount, vars
  <2> QED  BY <1>1, <2>1, TableUnchanged DEF vars
<1>2. CASE Stop("null mountpoint")
  BY <1>2, TableUnchanged DEF Stop
<1>3. CASE /\ i # 0 /\ table[i] # NULL
           /\ table' = Removed(table, i)
           /\ mp' = [b \in live \ {table[i]} |-> mp[b]]
           /\ UNCHANGED <<files, pc, call, fault>>
  <2>1. table \in Seq(Addresses \cup {NULL}) /\ Len(table) \in Nat /\ DOMAIN table = 1..Len(table)
    BY LenProperties DEF IInv, TableType
  <2>2. i \in 1..Len(table)
    BY <1>3, <2>1, UnmountedEntry
  <2> HIDE DEF i
  <2>3. /\ table' \in Seq(Addresses \cup {NULL})
        /\ Len(table') = Len(table) - 1
        /\ \A k \in 1..Len(table) - 1 : table'[k] = IF k < i THEN table[k] ELSE table[k + 1]
    BY <1>3, <2>1, <2>2, RemovedEntries
  <2>4. DOMAIN table' = 1..Len(table) - 1
    BY <2>3, LenProperties
  <2>5. live' = live \ {table[i]} /\ \A b \in live' : mp'[b] = mp[b]
    BY <1>3 DEF live
  <2>6. TableType'
    BY <1>3, <2>3, <2>5 DEF IInv, TableType
  <2>7. \A j, k \in DOMAIN table : table[j] = table[k] => j = k \/ table[j] = NULL
    BY DEF IInv, TableExact
  <2>8. Range(table) \ {NULL} = live
    BY DEF IInv, TableExact
  <2>9. Range(table') \ {NULL} = live'
    <3>1. ASSUME NEW x \in Range(table') \ {NULL} PROVE x \in live'
      <4>1. PICK k \in 1..Len(table) - 1 : x = table'[k]
        BY <2>4, <3>1, RangeOf
      <4>2. PICK j \in 1..Len(table) : j # i /\ x = table[j]
        BY <2>1, <2>2, <2>3, <4>1
      <4>3. x \in live /\ x # table[i]
        BY <1>3, <2>1, <2>2, <2>7, <2>8, <3>1, <4>2, RangeOf
      <4> QED  BY <2>5, <4>3
    <3>2. ASSUME NEW x \in live' PROVE x \in Range(table') \ {NULL}
      <4>1. x # NULL /\ x \in live /\ x # table[i]
        BY <2>5, <2>8, <3>2
      <4>2. PICK j \in 1..Len(table) : x = table[j]
        BY <2>1, <2>8, <4>1, RangeOf
      <4>3. PICK k \in 1..Len(table) - 1 : x = table'[k]
        <5>1. CASE j < i
          BY <2>1, <2>2, <2>3, <4>2, <5>1
        <5>2. CASE j > i
          <6>1. j - 1 \in 1..Len(table) - 1 /\ table'[j - 1] = table[j]
            BY <2>1, <2>2, <2>3, <5>2
          <6> QED  BY <4>2, <6>1
        <5> QED  BY <2>2, <4>1, <4>2, <5>1, <5>2
      <4> QED  BY <2>4, <4>1, <4>3, RangeOf
    <3> QED  BY <3>1, <3>2
  <2>10. \A j, k \in DOMAIN table' : table'[j] = table'[k] => j = k \/ table'[j] = NULL
    <3> SUFFICES ASSUME NEW j \in 1..Len(table) - 1, NEW k \in 1..Len(table) - 1,
                        table'[j] = table'[k], table'[j] # NULL
                 PROVE  j = k
      BY <2>4
    <3> DEFINE was(m) == IF m < i THEN m ELSE m + 1
    <3>1. /\ was(j) \in 1..Len(table) /\ table'[j] = table[was(j)]
          /\ was(k) \in 1..Len(table) /\ table'[k] = table[was(k)]
      BY <2>1, <2>2, <2>3
    <3>2. was(j) = was(k)
      BY <2>1, <2>7, <3>1
    <3> QED  BY <2>2, <3>2
  <2>11. TableExact'
    BY <2>9, <2>10 DEF TableExact
  <2>12. LoopInv'
    BY <1>3 DEF Unmount, LoopInv
  <2> QED  BY <2>6, <2>11, <2>12 DEF IInv
<1> QED  BY <1>1, <1>2, <1>3 DEF Unmount

LEMMA FopenStep ==
  ASSUME IInv, NEW path \in Path, Fopen(path)
  PROVE  IInv'
<1>1. /\ call' = [NoCall EXCEPT !.path = path]
      /\ UNCHANGED <<mounted_filesystems, mp>>
  BY DEF Fopen
<1>2. /\ call' = [path |-> path, i |-> 1, mountpoint |-> NULL]
      /\ call'.path = path /\ call'.i = 1 /\ call'.mountpoint = NULL
  BY <1>1 DEF NoCall
<1>3. Len(mounted_filesystems) \in Nat
  BY LenProperties DEF IInv, TableType
<1>4. TableType'
  <2>1. call' \in [path : Path, i : Nat, mountpoint : Addresses \cup {NULL}]
    BY <1>2
  <2> QED  BY <1>1, <2>1 DEF IInv, TableType, live
<1>5. TableExact'
  BY <1>1 DEF IInv, TableExact, live
<1>6. Covering(path, 0)' = {}
  BY DEF Covering
<1>7. call'.i \in 1..Len(mounted_filesystems') + 1 /\ call'.i - 1 = 0
  BY <1>1, <1>2, <1>3
<1>8. LoopInv'
  BY <1>2, <1>6, <1>7 DEF LoopInv
<1> QED  BY <1>4, <1>5, <1>8 DEF IInv

\* One entry of the table: the mountpoint found stays the best of those passed.
LEMMA ResolveStep ==
  ASSUME IInv, Resolve
  PROVE  IInv'
<1> DEFINE table == mounted_filesystems
           n == call.i
<1>1. CASE Entry = NULL
  <2>1. Stop("null mountpoint")
    BY <1>1 DEF Resolve
  <2> QED  BY <2>1, TableUnchanged DEF Stop
<1>2. CASE Entry # NULL /\ Stop("past the path")
  BY <1>2, TableUnchanged DEF Stop
<1>3. CASE /\ Entry # NULL
           /\ call' = [call EXCEPT !.i = @ + 1,
                         !.mountpoint = IF /\ ~Skipped(mp[Entry].path)
                                           /\ IsPrefix(mp[Entry].path, call.path)
                                           /\ Deeper(mp[Entry].path)
                                        THEN Entry ELSE @]
           /\ UNCHANGED <<mounted_filesystems, mp, files, pc, fault>>
  <2> DEFINE taken == /\ IsPrefix(mp[Entry].path, call.path)
                      /\ Deeper(mp[Entry].path)
  <2>1. /\ table \in Seq(Addresses \cup {NULL}) /\ Len(table) \in Nat /\ DOMAIN table = 1..Len(table)
        /\ n \in Nat /\ call.path \in Path /\ call.mountpoint \in Addresses \cup {NULL}
    BY LenProperties DEF IInv, TableType
  <2>2. pc = "resolve" /\ n \in 1..Len(table)
    <3>1. pc = "resolve" /\ n <= Len(table)
      BY Zenon DEF Resolve
    <3> QED  BY <2>1, <3>1 DEF IInv, LoopInv
  <2>3. Entry = table[n] /\ Entry \in live /\ Entry \in Addresses
    BY <1>3, <2>2, EntriesLive DEF Entry, IInv, TableType
  <2>4. mp[Entry].path \in Path
    BY <2>3 DEF IInv, TableType
  <2>5. taken => ~Skipped(mp[Entry].path)
    BY <2>1, <2>4, PathIsSeq DEF IsPrefix, Skipped
  <2>6. /\ call'.path = call.path /\ call'.i = n + 1
        /\ call'.mountpoint = IF taken THEN Entry ELSE call.mountpoint
        /\ call' \in [path : Path, i : Nat, mountpoint : Addresses \cup {NULL}]
    <3>1. call = [path |-> call.path, i |-> n, mountpoint |-> call.mountpoint]
      BY DEF IInv, TableType
    <3>2. call' = [path |-> call.path, i |-> n + 1,
                   mountpoint |-> IF taken THEN Entry ELSE call.mountpoint]
      BY <1>3, <2>5, <3>1
    <3> QED  BY <2>1, <2>3, <3>2
  <2>7. TableType' /\ TableExact'
    BY <1>3, <2>6 DEF IInv, TableType, TableExact, live
  <2>8. Covering(call.path, n) = Covering(call.path, n - 1)
                                     \cup IF IsPrefix(mp[Entry].path, call.path) THEN {n} ELSE {}
    <3>1. 1..n = (1..n - 1) \cup {n} /\ n \notin 1..n - 1
      BY <2>2
    <3> QED  BY <1>3, <2>3, <3>1 DEF Covering
  <2>9. \A k \in Covering(call.path, n - 1) :
           k \in Nat /\ k < n /\ Depth(k) \in Nat /\ table[k] # NULL
    <3> SUFFICES ASSUME NEW k \in Covering(call.path, n - 1)
                 PROVE  k \in Nat /\ k < n /\ Depth(k) \in Nat /\ table[k] # NULL
      OBVIOUS
    <3>1. k \in 1..n - 1 /\ table[k] # NULL
      BY DEF Covering
    <3>2. k \in 1..Len(table)
      BY <2>1, <2>2, <3>1
    <3>3. table[k] \in live
      BY <3>1, <3>2, EntriesLive DEF IInv
    <3> QED  BY <2>1, <3>1, <3>3, PathIsSeq DEF IInv, TableType, Depth
  <2>10. Depth(n) = Len(mp[Entry].path) /\ Depth(n) \in Nat
    BY <2>3, <2>4, PathIsSeq DEF Depth
  <2>11. \/ Covering(call.path, n) = {} /\ call'.mountpoint = NULL
         \/ \E k \in Covering(call.path, n) :
               Best(call.path, n, k) /\ call'.mountpoint = table[k]
    <3>1. CASE ~IsPrefix(mp[Entry].path, call.path)
      BY <2>2, <2>6, <2>8, <3>1 DEF IInv, LoopInv, Best
    <3>2. CASE IsPrefix(mp[Entry].path, call.path) /\ Covering(call.path, n - 1) = {}
      <4>1. call.mountpoint = NULL
        BY <2>2, <3>2 DEF IInv, LoopInv
      <4>2. taken
        BY <3>2, <4>1 DEF Deeper
      <4>3. Covering(call.path, n) = {n}
        BY <2>8, <3>2
      <4>4. Best(call.path, n, n)
        BY <2>10, <4>3, <2>2 DEF Best
      <4> QED  BY <2>3, <2>6, <4>2, <4>3, <4>4
    <3>3. CASE IsPrefix(mp[Entry].path, call.path) /\ Covering(call.path, n - 1) # {}
      <4>1. PICK k \in Covering(call.path, n - 1) :
               Best(call.path, n - 1, k) /\ call.mountpoint = table[k]
        BY <2>2, <3>3 DEF IInv, LoopInv
      <4>2. Deeper(mp[Entry].path) <=> Depth(n) >= Depth(k)
        BY <2>9, <2>10, <4>1 DEF Deeper, Depth
      <4>3. Covering(call.path, n) = Covering(call.path, n - 1) \cup {n}
        BY <2>8, <3>3
      <4>4. \A j \in Covering(call.path, n - 1) : Depth(j) <= Depth(k)
        BY <2>9, <4>1 DEF Best
      <4>5. CASE Depth(n) >= Depth(k)
        <5>1. Best(call.path, n, n)
          BY <2>1, <2>9, <2>10, <4>1, <4>3, <4>4, <4>5 DEF Best
        <5> QED  BY <2>3, <2>6, <3>3, <4>2, <4>3, <4>5, <5>1
      <4>6. CASE ~(Depth(n) >= Depth(k))
        <5>1. Best(call.path, n, k)
          BY <2>9, <2>10, <4>1, <4>3, <4>6 DEF Best
        <5> QED  BY <2>6, <4>1, <4>2, <4>3, <4>6, <5>1
      <4> QED  BY <4>5, <4>6
    <3> QED  BY <3>1, <3>2, <3>3
  <2>12. LoopInv'
    <3>1. /\ \A p, m : Covering(p, m)' = Covering(p', m')
      BY <1>3 DEF Covering
    <3>2. /\ Covering(call.path, call.i - 1)' = Covering(call.path, n)
          /\ \A k : Best(call.path, call.i - 1, k)' <=> Best(call.path, n, k)
      BY <1>3, <2>1, <2>6 DEF Covering, Best, Depth
    <3>3. call'.i \in 1..Len(table') + 1
      BY <1>3, <2>1, <2>2, <2>6
    <3> QED  BY <1>3, <2>11, <3>2, <3>3 DEF LoopInv
  <2> QED  BY <2>7, <2>12 DEF IInv
<1> QED  BY <1>1, <1>2, <1>3 DEF Resolve

LEMMA OpenStep ==
  ASSUME IInv, Open
  PROVE  IInv'
<1>1. call' = [path |-> <<>>, i |-> 1, mountpoint |-> NULL]
  BY DEF Open, NoCall, root_path
<1>2. <<>> \in Path
  BY VfsAssumption DEF Path
<1>3. call' \in [path : Path, i : Nat, mountpoint : Addresses \cup {NULL}]
  BY <1>1, <1>2
<1>4. UNCHANGED <<mounted_filesystems, mp>> /\ pc' = "idle"
  BY DEF Open
<1> QED  BY <1>3, <1>4 DEF IInv, TableType, TableExact, LoopInv, live

\* Calls on open files.
LEMMA FileStep ==
  ASSUME IInv, NEW f, Fclose(f) \/ Fread(f) \/ Fwrite(f) \/ Fstat(f)
  PROVE  IInv'
<1>1. UNCHANGED <<mounted_filesystems, mp, call>> /\ pc' # "resolve"
  BY DEF Fclose, Fread, Fwrite, Fstat, Stop
<1> QED  BY <1>1, TableUnchanged

LEMMA NextIInv == IInv /\ [Next]_vars => IInv'
<1> SUFFICES ASSUME IInv, [Next]_vars PROVE IInv'
  OBVIOUS
<1>1. ASSUME NEW p \in Path, NEW h \in Handler, Mount(p, h) PROVE IInv'
  BY <1>1, MountStep
<1>2. ASSUME NEW p \in Path, MountFails(p) PROVE IInv'
  BY <1>2, MountFailsStep
<1>3. ASSUME NEW p \in Path, Unmount(p) PROVE IInv'
  BY <1>3, UnmountStep
<1>4. ASSUME NEW p \in Path, Fopen(p) PROVE IInv'
  BY <1>4, FopenStep
<1>5. ASSUME NEW h \in Handler, MountPanics(h) PROVE IInv'
  BY <1>5, TableUnchanged DEF MountPanics, Stop
<1>6. CASE Resolve
  BY <1>6, ResolveStep
<1>7. CASE Open
  BY <1>7, OpenStep
<1>8. ASSUME NEW f \in files, Fclose(f) \/ Fread(f) \/ Fwrite(f) \/ Fstat(f) PROVE IInv'
  BY <1>8, FileStep
<1>9. CASE UNCHANGED vars
  <2>1. \A p, m : Covering(p, m)' = Covering(p', m')
    BY <1>9 DEF vars, Covering
  <2> QED  BY <1>9 DEF vars, IInv, TableType, TableExact, LoopInv, Best, Covering, Depth, live
<1> QED  BY <1>1, <1>2, <1>3, <1>4, <1>5, <1>6, <1>7, <1>8, <1>9 DEF Next

LEMMA Inductive == Spec => []IInv
BY InitIInv, NextIInv, PTL DEF Spec

-----------------------------------------------------------------------------
\* Through mounts that succeed, fail or panic and unmounts in any order, the entries of
\* mounted_filesystems but its NULLs are exactly the allocated mountpoints, each once.
THEOREM ExactTable == Spec => []TableExact
<1>1. IInv => TableExact
  BY DEF IInv
<1> QED  BY <1>1, Inductive, PTL

\* What a step of fopen opens.
LEMMA OpensBest ==
  ASSUME IInv, [Next]_vars, NEW f \in files' \ files
  PROVE  /\ f.mount = Belongs(f.asked, Len(mounted_filesystems))
         /\ f.asked = mp[f.mount].path \o f.path
<1>1. Open
  <2>1. \A p, h : Mount(p, h) => files' = files
    BY DEF Mount
  <2>2. \A p : MountFails(p) \/ Unmount(p) \/ Fopen(p) => files' = files
    BY DEF MountFails, Unmount, Fopen, Stop, vars
  <2>3. \A h : MountPanics(h) => files' = files
    BY DEF MountPanics, Stop
  <2>4. Resolve => files' = files
    BY DEF Resolve, Stop
  <2>5. \A g : Fclose(g) \/ Fread(g) \/ Fwrite(g) \/ Fstat(g) => files' \subseteq files
    BY DEF Fclose, Fread, Fwrite, Fstat, Stop
  <2>6. UNCHANGED vars => files' = files
    BY DEF vars
  <2> QED  BY <2>1, <2>2, <2>3, <2>4, <2>5, <2>6 DEF Next
<1>2. /\ call.mountpoint # NULL
      /\ f = [mount |-> call.mountpoint, handler |-> mp[call.mountpoint].handler,
              path |-> Stripped(call.path, call.mountpoint), asked |-> call.path]
  BY <1>1 DEF Open
<1>3. /\ f.mount = call.mountpoint /\ f.asked = call.path
      /\ f.path = Stripped(call.path, call.mountpoint)
  BY <1>2
<1>4. Len(mounted_filesystems) \in Nat /\ call.i \in Nat /\ call.path \in Path
  BY LenProperties DEF IInv, TableType
<1>5. pc = "resolve" /\ call.i - 1 = Len(mounted_filesystems)
  BY <1>1, <1>4 DEF Open, IInv, LoopInv
<1>6. PICK k \in Covering(call.path, Len(mounted_filesystems)) :
         /\ Best(call.path, Len(mounted_filesystems), k)
         /\ call.mountpoint = mounted_filesystems[k]
  BY <1>2, <1>5 DEF IInv, LoopInv
<1>7. Belongs(call.path, Len(mounted_filesystems)) = call.mountpoint
  BY <1>4, <1>6, BestIsChosen DEF IInv
<1>8. IsPrefix(mp[call.mountpoint].path, call.path) /\ call.mountpoint \in live
  <2>1. k \in 1..Len(mounted_filesystems) /\ mounted_filesystems[k] # NULL
    BY <1>6 DEF Covering
  <2> QED  BY <1>6, <2>1, EntriesLive DEF Covering, IInv
<1>9. call.path = mp[call.mountpoint].path \o f.path
  <2>1. mp[call.mountpoint].path \in Seq(Names) /\ call.path \in Seq(Names)
    BY <1>4, <1>8, PathIsSeq DEF IInv, TableType
  <2> QED  BY <1>3, <1>8, <2>1, PrefixAndRest DEF Stripped
<1> QED  BY <1>3, <1>7, <1>9

\* fopen hands a path to the deepest and, of two at one place, the newest mountpoint above
\* it, whatever has been mounted and unmounted before, and strips exactly that part.
THEOREM DeepestOpens == Spec => OpensUnderDeepest
<1>1. IInv /\ [Next]_vars =>
        [\A f \in files' \ files :
            /\ f.mount = Belongs(f.asked, Len(mounted_filesystems))
            /\ f.asked = mp[f.mount].path \o f.path]_vars
  BY OpensBest
<1> QED  BY <1>1, Inductive, PTL DEF Spec, OpensUnderDeepest

-----------------------------------------------------------------------------
\* A bounded, nonempty set of numbers has a greatest element.
LEMMA Greatest ==
  ASSUME NEW b \in Nat, NEW T, T \subseteq 0..b, T # {}
  PROVE  \E x \in T : \A y \in T : y <= x
<1> DEFINE R == OpToRel(<, Nat)
           below == {b - t : t \in T}
<1>1. below \subseteq Nat /\ below # {}
  <2>1. \A t \in T : b - t \in Nat
    OBVIOUS
  <2>2. PICK t \in T : TRUE
    OBVIOUS
  <2>3. b - t \in below
    OBVIOUS
  <2> QED  BY <2>1, <2>3
<1>2. IsWellFoundedOn(R, Nat)
  BY NatLessThanWellFounded
<1>3. \A x, y \in Nat : <<y, x>> \in R <=> y < x
  BY DEF OpToRel
<1> HIDE DEF R, below
<1>4. PICK m \in below : \A y \in below : ~(<<y, m>> \in R)
  BY <1>1, <1>2, WFMin
<1>5. PICK x \in T : m = b - x
  BY <1>4 DEF below
<1>6. ASSUME NEW y \in T PROVE y <= x
  <2>1. b - y \in below
    BY DEF below
  <2>2. m \in Nat /\ b - y \in Nat /\ ~(b - y < m)
    BY <1>1, <1>3, <1>4, <2>1
  <2> QED  BY <1>5, <2>2
<1> QED  BY <1>6

\* The entries above a path and their depths.
LEMMA CoveringType ==
  ASSUME TableType, TableExact, NEW path, NEW n \in 0..Len(mounted_filesystems),
         NEW k \in Covering(path, n)
  PROVE  /\ k \in 1..n /\ k \in 1..Len(mounted_filesystems)
         /\ mounted_filesystems[k] \in live /\ mounted_filesystems[k] # NULL
         /\ Depth(k) \in 0..MaxDepth
<1>1. k \in 1..n /\ k \in 1..Len(mounted_filesystems) /\ mounted_filesystems[k] # NULL
  BY LenProperties DEF Covering, TableType
<1>2. mounted_filesystems[k] \in live
  BY <1>1, EntriesLive
<1>3. \A p \in Path : Len(p) \in 0..MaxDepth
  BY VfsAssumption DEF Path
<1> QED  BY <1>1, <1>2, <1>3 DEF TableType, Depth

\* Of the entries above a path, if there are any, one is the best.
LEMMA BestExists ==
  ASSUME TableType, TableExact, NEW path, NEW n \in 0..Len(mounted_filesystems),
         Covering(path, n) # {}
  PROVE  \E k : Best(path, n, k)
<1> DEFINE C == Covering(path, n)
           D == {Depth(k) : k \in C}
<1>1. \A k \in C : k \in 1..n /\ Depth(k) \in 0..MaxDepth
  BY CoveringType
<1>2. n \in Nat /\ MaxDepth \in Nat
  BY LenProperties, VfsAssumption DEF TableType
<1> HIDE DEF C
<1>3. C # {}
  BY DEF C
<1>4. D \subseteq 0..MaxDepth /\ D # {}
  BY <1>1, <1>3
<1>5. PICK d \in D : \A e \in D : e <= d
  BY <1>2, <1>4, Greatest
<1> DEFINE deepest == {k \in C : Depth(k) = d}
<1>6. deepest \subseteq 0..n /\ deepest # {}
  BY <1>1, <1>5
<1>7. PICK k \in deepest : \A j \in deepest : j <= k
  BY <1>2, <1>6, Greatest
<1>8. ASSUME NEW j \in C PROVE Depth(j) < Depth(k) \/ (Depth(j) = Depth(k) /\ j <= k)
  <2>1. Depth(j) <= d /\ Depth(j) \in Nat /\ Depth(k) = d /\ d \in Nat
    BY <1>1, <1>2, <1>4, <1>5, <1>7
  <2> QED  BY <1>7, <2>1
<1> QED  BY <1>7, <1>8 DEF Best, C

\* In the whole table: the entries above a path, and the best of them, to which it belongs.
Above(path) == Covering(path, Len(mounted_filesystems))
BestOf(path, k) == Best(path, Len(mounted_filesystems), k)
Home(path) == Belongs(path, Len(mounted_filesystems))

ChosenWell(path) ==
    /\ Above(path) = {} => Home(path) = NULL
    /\ Above(path) # {} => \E k : BestOf(path, k)
    /\ \A k : BestOf(path, k) => Home(path) = mounted_filesystems[k]

LEMMA EveryPathChosenWell == IInv => \A path \in Path : ChosenWell(path)
<1> SUFFICES ASSUME IInv, NEW path \in Path PROVE ChosenWell(path)
  OBVIOUS
<1>1. Len(mounted_filesystems) \in 0..Len(mounted_filesystems)
  BY LenProperties DEF IInv, TableType
<1>2. Above(path) = {} => Home(path) = NULL
  BY DEF Above, Home, Belongs
<1>3. Above(path) # {} => \E k : BestOf(path, k)
  BY <1>1, BestExists DEF Above, BestOf, IInv
<1>4. \A k : BestOf(path, k) => Home(path) = mounted_filesystems[k]
  BY <1>1, BestIsChosen DEF BestOf, Home, IInv
<1> QED  BY <1>2, <1>3, <1>4 DEF ChosenWell

\* The same after a step.
LEMMA ChosenWellAfter == IInv' => \A path \in Path : ChosenWell(path)'
<1>1. (IInv => \A path \in Path : ChosenWell(path))'
  BY EveryPathChosenWell, PTL
<1> QED  BY <1>1

\* The entries above a path, in the table before a step.
LEMMA AboveType ==
  ASSUME IInv, NEW path, NEW k \in Above(path)
  PROVE  /\ k \in 1..Len(mounted_filesystems)
         /\ mounted_filesystems[k] \in live /\ mounted_filesystems[k] # NULL
         /\ Depth(k) \in Nat
<1>1. Len(mounted_filesystems) \in 0..Len(mounted_filesystems)
  BY LenProperties DEF IInv, TableType
<1>2. MaxDepth \in Nat
  BY VfsAssumption
<1>3. /\ k \in 1..Len(mounted_filesystems)
      /\ mounted_filesystems[k] \in live /\ mounted_filesystems[k] # NULL
      /\ Depth(k) \in 0..MaxDepth
  BY <1>1, CoveringType DEF Above, IInv
<1> QED  BY <1>2, <1>3

\* A path belongs where it did, if the entries above it are the same.
LEMMA SameHome ==
  ASSUME IInv, IInv', NEW path \in Path,
         Above(path)' = Above(path),
         \A k \in Above(path) : /\ Depth(k)' = Depth(k)
                                /\ mounted_filesystems'[k] = mounted_filesystems[k]
  PROVE  Home(path)' = Home(path)
<1>1. ChosenWell(path) /\ ChosenWell(path)'
  BY EveryPathChosenWell, ChosenWellAfter
<1>2. CASE Above(path) = {}
  BY <1>1, <1>2 DEF ChosenWell
<1>3. CASE Above(path) # {}
  <2>1. PICK k : BestOf(path, k)
    BY <1>1, <1>3 DEF ChosenWell
  <2>2. k \in Above(path) /\ \A j \in Above(path) :
           Depth(j) < Depth(k) \/ (Depth(j) = Depth(k) /\ j <= k)
    BY <2>1 DEF BestOf, Best, Above
  <2>3. k \in Above(path)' /\ \A j \in Above(path)' :
           Depth(j)' < Depth(k)' \/ (Depth(j)' = Depth(k)' /\ j <= k)
    BY <2>2
  <2>4. BestOf(path, k)'
    BY <2>3 DEF BestOf, Best, Above
  <2>5. Home(path) = mounted_filesystems[k] /\ Home(path)' = mounted_filesystems'[k]
    BY <1>1, <2>1, <2>4 DEF ChosenWell
  <2> QED  BY <2>2, <2>5
<1> QED  BY <1>2, <1>3

\* A new mountpoint takes over the paths under it, but for those of deeper ones.
LEMMA MountHome ==
  ASSUME IInv, IInv', NEW path \in Path, NEW handler, Mount(path, handler), NEW p \in Path
  PROVE  Home(p)' = Home(p) \/ Home(p)' \in live' \ live
<1> DEFINE table == mounted_filesystems
<1>1. PICK a \in Addresses \ live :
        /\ mp' = [b \in live \cup {a} |->
                     IF b = a THEN [path |-> path, handler |-> handler] ELSE mp[b]]
        /\ table' = Append(table, a)
  BY DEF Mount
<1>2. table \in Seq(Addresses \cup {NULL}) /\ a \in Addresses \cup {NULL} /\ Len(table) \in Nat
  BY LenProperties DEF IInv, TableType
<1>3. PICK top \in Nat : top = Len(table) + 1
  BY <1>2
<1>4. /\ Len(table') = top /\ table'[top] = a
      /\ \A k \in 1..Len(table) : table'[k] = table[k]
  BY <1>1, <1>2, <1>3, AppendProperties
<1>5. live' = live \cup {a} /\ mp'[a].path = path /\ a # NULL
  BY <1>1, VfsAssumption DEF live
<1>6. \A k \in 1..Len(table) : table[k] # NULL => mp'[table'[k]] = mp[table[k]]
  <2> SUFFICES ASSUME NEW k \in 1..Len(table), table[k] # NULL
               PROVE  mp'[table'[k]] = mp[table[k]]
    OBVIOUS
  <2>1. table[k] \in live /\ table'[k] = table[k]
    BY <1>4, EntriesLive DEF IInv
  <2> QED  BY <1>1, <2>1
<1>7. \A k \in Above(p) : /\ k \in 1..Len(table) /\ k < top
                          /\ Depth(k)' = Depth(k) /\ table'[k] = table[k]
  <2> SUFFICES ASSUME NEW k \in Above(p)
               PROVE  /\ k \in 1..Len(table) /\ k < top
                      /\ Depth(k)' = Depth(k) /\ table'[k] = table[k]
    OBVIOUS
  <2>1. k \in 1..Len(table) /\ table[k] # NULL
    BY AboveType
  <2> QED  BY <1>2, <1>3, <1>4, <1>6, <2>1 DEF Depth
<1>8. Above(p)' = Above(p) \cup IF IsPrefix(path, p) THEN {top} ELSE {}
  <2>1. 1..top = 1..Len(table) \cup {top}
    BY <1>2, <1>3
  <2>2. Above(p) = {k \in 1..Len(table) : table[k] # NULL /\ IsPrefix(mp[table[k]].path, p)}
    BY DEF Above, Covering
  <2>3. Above(p)' = {k \in 1..top : table'[k] # NULL /\ IsPrefix(mp'[table'[k]].path, p)}
    BY <1>4 DEF Above, Covering
  <2> QED  BY <1>4, <1>5, <1>6, <2>1, <2>2, <2>3
<1>9. CASE ~IsPrefix(path, p)
  <2>1. Above(p)' = Above(p)
    BY <1>8, <1>9
  <2> QED  BY <1>7, <2>1, SameHome
<1>10. CASE IsPrefix(path, p)
  <2>1. ChosenWell(p) /\ ChosenWell(p)'
    BY EveryPathChosenWell, ChosenWellAfter
  <2>2. Above(p)' = Above(p) \cup {top}
    BY <1>8, <1>10
  <2>3. PICK k : BestOf(p, k)'
    BY <2>1, <2>2 DEF ChosenWell
  <2>4. Home(p)' = table'[k]
    BY <2>1, <2>3 DEF ChosenWell
  <2>5. k \in Above(p)' /\ \A j \in Above(p)' :
           Depth(j)' < Depth(k)' \/ (Depth(j)' = Depth(k)' /\ j <= k)
    BY <2>3 DEF BestOf, Best, Above
  <2>6. CASE k = top
    BY <1>1, <1>4, <1>5, <2>4, <2>6
  <2>7. CASE k \in Above(p)
    <3>1. \A j \in Above(p) : Depth(j) < Depth(k) \/ (Depth(j) = Depth(k) /\ j <= k)
      BY <1>7, <2>2, <2>5, <2>7
    <3>2. BestOf(p, k)
      BY <2>7, <3>1 DEF BestOf, Best, Above
    <3>3. Home(p) = table[k]
      BY <2>1, <3>2 DEF ChosenWell
    <3> QED  BY <1>7, <2>4, <2>7, <3>3
  <2> QED  BY <2>2, <2>5, <2>6, <2>7
<1> QED  BY <1>9, <1>10

\* A mount that failed takes over nothing.
LEMMA MountFailsHome ==
  ASSUME IInv, IInv', NEW path, MountFails(path), NEW p \in Path
  PROVE  Home(p)' = Home(p)
<1> DEFINE table == mounted_filesystems
<1>1. table' = Append(table, NULL) /\ mp' = mp
  BY DEF MountFails
<1>2. table \in Seq(Addresses \cup {NULL}) /\ NULL \in Addresses \cup {NULL} /\ Len(table) \in Nat
  BY LenProperties DEF IInv, TableType
<1>3. PICK top \in Nat : top = Len(table) + 1
  BY <1>2
<1>4. /\ Len(table') = top /\ table'[top] = NULL
      /\ \A k \in 1..Len(table) : table'[k] = table[k]
  BY <1>1, <1>2, <1>3, AppendProperties
<1>5. \A k \in Above(p) : Depth(k)' = Depth(k) /\ table'[k] = table[k]
  <2> SUFFICES ASSUME NEW k \in Above(p) PROVE Depth(k)' = Depth(k) /\ table'[k] = table[k]
    OBVIOUS
  <2>1. k \in 1..Len(table)
    BY AboveType
  <2> QED  BY <1>1, <1>4, <2>1 DEF Depth
<1>6. Above(p)' = Above(p)
  <2>1. 1..top = 1..Len(table) \cup {top}
    BY <1>2, <1>3
  <2>2. Above(p) = {k \in 1..Len(table) : table[k] # NULL /\ IsPrefix(mp[table[k]].path, p)}
    BY DEF Above, Covering
  <2>3. Above(p)' = {k \in 1..top : table'[k] # NULL /\ IsPrefix(mp'[table'[k]].path, p)}
    BY <1>4 DEF Above, Covering
  <2> QED  BY <1>1, <1>4, <2>1, <2>2, <2>3
<1> QED  BY <1>5, <1>6, SameHome

\* The entry k of a table was, before the i-th went, the entry k or the one after it.
Was(k, i) == IF k < i THEN k ELSE k + 1

LEMMA WhereEntriesWere ==
  ASSUME NEW N \in Nat, NEW i \in 1..N
  PROVE  /\ \A k \in 1..N - 1 : Was(k, i) \in 1..N /\ Was(k, i) # i
         /\ \A j \in 1..N : j # i => \E k \in 1..N - 1 : j = Was(k, i)
         /\ \A j, k \in 1..N - 1 : j <= k <=> Was(j, i) <= Was(k, i)
<1>1. \A k \in 1..N - 1 : Was(k, i) \in 1..N /\ Was(k, i) # i
  BY DEF Was
<1>2. ASSUME NEW j \in 1..N, j # i PROVE \E k \in 1..N - 1 : j = Was(k, i)
  <2>1. CASE j < i
    BY <2>1 DEF Was
  <2>2. CASE j > i
    <3>1. j - 1 \in 1..N - 1 /\ j = Was(j - 1, i)
      BY <2>2 DEF Was
    <3> QED  BY <3>1
  <2> QED  BY <1>2, <2>1, <2>2
<1>3. \A j, k \in 1..N - 1 : j <= k <=> Was(j, i) <= Was(k, i)
  BY DEF Was
<1> QED  BY <1>1, <1>2, <1>3

\* Unmounting gives away only what belonged to the mountpoint that goes.
LEMMA UnmountHome ==
  ASSUME IInv, IInv', NEW path \in Path, Unmount(path), fault' = "", NEW p \in Path
  PROVE  Home(p)' = Home(p) \/ Home(p) \in live \ live'
<1> DEFINE table == mounted_filesystems
<1>1. CASE UNCHANGED vars
  <2>1. table' = table /\ mp' = mp
    BY <1>1 DEF vars
  <2>2. Above(p)' = Above(p) /\ \A k \in Above(p) : Depth(k)' = Depth(k) /\ table'[k] = table[k]
    BY <2>1 DEF Above, Covering, Depth
  <2> QED  BY <2>2, SameHome
<1>2. CASE Stop("null mountpoint")
  BY <1>2 DEF Stop
<1>3. CASE /\ Unmounted(path) # 0
           /\ table[Unmounted(path)] # NULL
           /\ table' = Removed(table, Unmounted(path))
           /\ mp' = [b \in live \ {table[Unmounted(path)]} |-> mp[b]]
  <2>1. table \in Seq(Addresses \cup {NULL}) /\ Len(table) \in Nat /\ DOMAIN table = 1..Len(table)
    BY LenProperties DEF IInv, TableType
  <2>2. PICK i \in 1..Len(table) : i = Unmounted(path)
    BY <1>3, <2>1, UnmountedEntry
  <2>3. PICK N \in Nat : N = Len(table)
    BY <2>1
  <2>4. /\ Len(table') = N - 1 /\ i \in 1..N
        /\ \A k \in 1..N - 1 : table'[k] = IF k < i THEN table[k] ELSE table[k + 1]
    BY <1>3, <2>1, <2>2, <2>3, RemovedEntries
  <2>5. live' = live \ {table[i]} /\ \A b \in live' : mp'[b] = mp[b]
    BY <1>3, <2>2 DEF live
  <2>6. table[i] \in live \ live'
    BY <1>3, <2>2, <2>5, EntriesLive DEF IInv
  <2> DEFINE was(k) == Was(k, i)
  <2>0. i \in 1..N /\ N \in Nat
    BY <2>3
  <2>7. \A k \in 1..N - 1 :
           /\ was(k) \in 1..N /\ was(k) # i /\ table'[k] = table[was(k)]
           /\ table'[k] # NULL => mp'[table'[k]] = mp[table[was(k)]]
    <3> SUFFICES ASSUME NEW k \in 1..N - 1
                 PROVE  /\ was(k) \in 1..N /\ was(k) # i /\ table'[k] = table[was(k)]
                        /\ table'[k] # NULL => mp'[table'[k]] = mp[table[was(k)]]
      OBVIOUS
    <3>1. was(k) \in 1..N /\ was(k) # i
      BY <2>0, WhereEntriesWere
    <3>2. table'[k] = table[was(k)]
      BY <2>4 DEF Was
    <3>3. ASSUME table'[k] # NULL PROVE mp'[table'[k]] = mp[table[was(k)]]
      <4>1. table[was(k)] \in live
        BY <2>3, <3>1, <3>2, <3>3, EntriesLive DEF IInv
      <4>2. table[was(k)] # table[i]
        BY <2>1, <2>2, <2>3, <3>1, <3>2, <3>3 DEF IInv, TableExact
      <4> QED  BY <2>5, <3>2, <4>1, <4>2
    <3> QED  BY <3>1, <3>2, <3>3
  <2>8. \A j \in 1..N : j # i => \E k \in 1..N - 1 : j = was(k)
    BY <2>0, WhereEntriesWere
  <2>9. \A j, k \in 1..N - 1 : j <= k <=> was(j) <= was(k)
    BY <2>0, WhereEntriesWere
  <2>10. Above(p) = {k \in 1..N : table[k] # NULL /\ IsPrefix(mp[table[k]].path, p)}
    BY <2>3 DEF Above, Covering
  <2>11. Above(p)' = {k \in 1..N - 1 : table'[k] # NULL /\ IsPrefix(mp'[table'[k]].path, p)}
    BY <2>4 DEF Above, Covering
  <2>12. \A k \in 1..N - 1 : k \in Above(p)' <=> was(k) \in Above(p)
    BY <2>7, <2>10, <2>11
  <2>13. \A k \in Above(p)' : Depth(k)' = Depth(was(k))
    BY <2>7, <2>11 DEF Depth
  <2> HIDE DEF was
  <2>14. ChosenWell(p) /\ ChosenWell(p)'
    BY EveryPathChosenWell, ChosenWellAfter
  <2>15. CASE Above(p) = {}
    <3>1. Above(p)' = {}
      BY <2>11, <2>12, <2>15
    <3> QED  BY <2>14, <2>15, <3>1 DEF ChosenWell
  <2>16. CASE Above(p) # {}
    <3>1. PICK b : BestOf(p, b)
      BY <2>14, <2>16 DEF ChosenWell
    <3>2. /\ b \in Above(p) /\ Home(p) = table[b]
          /\ \A j \in Above(p) : Depth(j) < Depth(b) \/ (Depth(j) = Depth(b) /\ j <= b)
      BY <2>14, <3>1 DEF ChosenWell, BestOf, Best, Above
    <3>3. CASE b = i
      BY <2>6, <3>2, <3>3
    <3>4. CASE b # i
      <4>1. PICK k \in 1..N - 1 : b = was(k)
        BY <2>8, <2>10, <3>2, <3>4
      <4>2. k \in Above(p)'
        BY <2>12, <3>2, <4>1
      <4>3. \A j \in Above(p)' : Depth(j)' < Depth(k)' \/ (Depth(j)' = Depth(k)' /\ j <= k)
        <5> SUFFICES ASSUME NEW j \in Above(p)'
                     PROVE  Depth(j)' < Depth(k)' \/ (Depth(j)' = Depth(k)' /\ j <= k)
          OBVIOUS
        <5>1. j \in 1..N - 1 /\ was(j) \in Above(p)
          BY <2>11, <2>12
        <5>2. Depth(was(j)) < Depth(was(k)) \/ (Depth(was(j)) = Depth(was(k)) /\ was(j) <= was(k))
          BY <3>2, <4>1, <5>1
        <5> QED  BY <2>9, <2>13, <4>1, <4>2, <5>1, <5>2
      <4>4. BestOf(p, k)'
        BY <4>2, <4>3 DEF BestOf, Best, Above
      <4>5. Home(p)' = table'[k]
        BY <2>14, <4>4 DEF ChosenWell
      <4> QED  BY <2>7, <3>2, <4>1, <4>5
    <3> QED  BY <3>3, <3>4
  <2> QED  BY <2>15, <2>16
<1> QED  BY <1>1, <1>2, <1>3 DEF Unmount

\* A step that leaves the table and the mountpoints leaves every path where it belongs.
LEMMA TableKeepsHome ==
  ASSUME IInv, IInv', UNCHANGED <<mounted_filesystems, mp>>, NEW p \in Path
  PROVE  Home(p)' = Home(p)
<1>1. /\ Above(p)' = Above(p)
      /\ \A k \in Above(p) : Depth(k)' = Depth(k) /\ mounted_filesystems'[k] = mounted_filesystems[k]
  BY DEF Above, Covering, Depth
<1> QED  BY <1>1, SameHome

LEMMA StepKeepsHome ==
  ASSUME IInv, [Next]_vars, fault' = "", NEW p \in Path
  PROVE  \/ Home(p)' = Home(p)
         \/ Home(p) \in live \ live'
         \/ Home(p)' \in live' \ live
<1>1. IInv'
  BY NextIInv
<1>2. ASSUME NEW path \in Path, NEW h \in Handler, Mount(path, h)
      PROVE  Home(p)' = Home(p) \/ Home(p)' \in live' \ live
  BY <1>1, <1>2, MountHome
<1>3. ASSUME NEW path \in Path, MountFails(path) PROVE Home(p)' = Home(p)
  BY <1>1, <1>3, MountFailsHome
<1>4. ASSUME NEW path \in Path, Unmount(path)
      PROVE  Home(p)' = Home(p) \/ Home(p) \in live \ live'
  BY <1>1, <1>4, UnmountHome
<1>5. ASSUME UNCHANGED <<mounted_filesystems, mp>> PROVE Home(p)' = Home(p)
  BY <1>1, <1>5, TableKeepsHome
<1>6. \A path \in Path : Fopen(path) => UNCHANGED <<mounted_filesystems, mp>>
  BY DEF Fopen
<1>7. \A h \in Handler : MountPanics(h) => UNCHANGED <<mounted_filesystems, mp>>
  BY DEF MountPanics, Stop
<1>8. Resolve => UNCHANGED <<mounted_filesystems, mp>>
  BY DEF Resolve, Stop
<1>9. Open => UNCHANGED <<mounted_filesystems, mp>>
  BY DEF Open
<1>10. \A f \in files : Fclose(f) \/ Fread(f) \/ Fwrite(f) \/ Fstat(f)
                           => UNCHANGED <<mounted_filesystems, mp>>
  BY DEF Fclose, Fread, Fwrite, Fstat, Stop
<1>11. UNCHANGED vars => UNCHANGED <<mounted_filesystems, mp>>
  BY DEF vars
<1> QED  BY <1>2, <1>3, <1>4, <1>5, <1>6, <1>7, <1>8, <1>9, <1>10, <1>11 DEF Next

\* A file system that is mounted or unmounted moves no path but those that belong to it.
THEOREM MountsAreIndependent == Spec => OthersUndisturbed
<1>1. IInv /\ [Next]_vars =>
        [fault' = "" => \A p \in Path :
            LET before == Belongs(p, Len(mounted_filesystems))
                after  == Belongs(p, Len(mounted_filesystems))'
            IN  \/ after = before
                \/ before \in live \ live'
                \/ after \in live' \ live]_vars
  BY StepKeepsHome DEF Home
<1> QED  BY <1>1, Inductive, PTL DEF Spec, OthersUndisturbed

-----------------------------------------------------------------------------
\* The components of a string.

Chars == Letters \cup {SLASH}

\* How many slashes there are up to a place.
Rank(s, k) == Cardinality({j \in Slashes(s) : j <= k})

NameCount(s) == Cardinality({k \in Slashes(s) : k < Len(s)})

AllShort(s) == \A n \in DOMAIN NamesOf(s) : Len(NamesOf(s)[n]) <= MAX_NAME

\* A nonempty set of numbers has a least element.
LEMMA LeastOne ==
  ASSUME NEW T, T \subseteq Nat, T # {}
  PROVE  \E x \in T : \A y \in T : x <= y
<1> DEFINE R == OpToRel(<, Nat)
<1>1. IsWellFoundedOn(R, Nat)
  BY NatLessThanWellFounded
<1>2. \A x, y \in Nat : <<y, x>> \in R <=> y < x
  BY DEF OpToRel
<1> HIDE DEF R
<1>3. PICK x \in T : \A y \in T : ~(<<y, x>> \in R)
  BY <1>1, WFMin
<1>4. ASSUME NEW y \in T PROVE x <= y
  BY <1>2, <1>3, x \in Nat /\ y \in Nat /\ ~(y < x)
<1> QED  BY <1>4

LEMMA SlashesAre ==
  ASSUME NEW s \in Seq(Chars)
  PROVE  /\ Len(s) \in Nat /\ Slashes(s) = {k \in 1..Len(s) : s[k] = SLASH}
         /\ Slashes(s) \subseteq 1..Len(s) /\ IsFiniteSet(Slashes(s))
<1>1. Len(s) \in Nat /\ DOMAIN s = 1..Len(s)
  OBVIOUS
<1>2. Slashes(s) = {k \in 1..Len(s) : s[k] = SLASH}
  BY <1>1 DEF Slashes
<1>3. IsFiniteSet(1..Len(s))
  BY <1>1, FS_Interval
<1>4. Slashes(s) \in SUBSET (1..Len(s))
  BY <1>2
<1> QED  BY <1>1, <1>2, <1>3, <1>4, FS_Subset

LEMMA UpToFinite ==
  ASSUME NEW s \in Seq(Chars), NEW k
  PROVE  IsFiniteSet({j \in Slashes(s) : j <= k}) /\ Rank(s, k) \in Nat
<1>1. IsFiniteSet(Slashes(s)) /\ {j \in Slashes(s) : j <= k} \in SUBSET Slashes(s)
  BY SlashesAre
<1>2. IsFiniteSet({j \in Slashes(s) : j <= k})
  BY <1>1, FS_Subset
<1> QED  BY <1>2, FS_CardinalityType DEF Rank

LEMMA RankGrows ==
  ASSUME NEW s \in Seq(Chars), NEW b \in Slashes(s), NEW e \in Slashes(s), b < e
  PROVE  Rank(s, b) < Rank(s, e)
<1> DEFINE B == {j \in Slashes(s) : j <= b}
           E == {j \in Slashes(s) : j <= e}
<1>1. IsFiniteSet(B) /\ IsFiniteSet(E) /\ Rank(s, b) \in Nat /\ Rank(s, e) \in Nat
  BY UpToFinite
<1>2. Slashes(s) \subseteq 1..Len(s) /\ Len(s) \in Nat
  BY SlashesAre
<1>3. B \in SUBSET E /\ e \in E /\ e \notin B
  BY <1>2
<1>4. Cardinality(B) <= Cardinality(E) /\ (Cardinality(E) = Cardinality(B) => E = B)
  <2> HIDE DEF B, E
  <2> QED  BY <1>1, <1>3, FS_Subset
<1> QED  BY <1>1, <1>3, <1>4 DEF Rank

LEMMA NumberOfSlash ==
  ASSUME NEW s \in Seq(Chars), NEW b \in Slashes(s)
  PROVE  SlashNumber(s, Rank(s, b)) = b
<1>1. Slashes(s) \subseteq Nat
  BY SlashesAre
<1>2. \A k \in Slashes(s) : Rank(s, k) \in Nat
  BY UpToFinite
<1>3. \A k \in Slashes(s) : Rank(s, k) = Rank(s, b) => k = b
  <2> SUFFICES ASSUME NEW k \in Slashes(s), Rank(s, k) = Rank(s, b), k # b PROVE FALSE
    OBVIOUS
  <2>1. k < b \/ b < k
    BY <1>1
  <2> QED  BY <1>2, <2>1, RankGrows
<1>4. SlashNumber(s, Rank(s, b)) = CHOOSE k \in Slashes(s) : Rank(s, k) = Rank(s, b)
  BY DEF SlashNumber, Rank
<1> QED  BY <1>3, <1>4

LEMMA RankNext ==
  ASSUME NEW s \in Seq(Chars), NEW b \in Slashes(s), NEW e \in Slashes(s), b < e,
         \A j \in b + 1..e - 1 : s[j] # SLASH
  PROVE  Rank(s, e) = Rank(s, b) + 1
<1> DEFINE B == {j \in Slashes(s) : j <= b}
           E == {j \in Slashes(s) : j <= e}
<1>1. IsFiniteSet(B)
  BY UpToFinite
<1>2. Slashes(s) = {k \in 1..Len(s) : s[k] = SLASH} /\ Len(s) \in Nat
  BY SlashesAre
<1>3. E = B \cup {e} /\ e \notin B
  BY <1>2
<1>4. Cardinality(B \cup {e}) = Cardinality(B) + 1
  <2> HIDE DEF B
  <2> QED  BY <1>1, <1>3, FS_AddElement
<1> QED  BY <1>3, <1>4 DEF Rank

\* As many slashes stand before the last place as names.
LEMMA CountIs ==
  ASSUME NEW s \in Seq(Chars), NEW b \in Slashes(s)
  PROVE  /\ NameCount(s) \in Nat
         /\ Rank(s, b) - 1 <= NameCount(s)
         /\ b < Len(s) => Rank(s, b) <= NameCount(s)
         /\ b < Len(s) /\ (\A j \in b + 1..Len(s) - 1 : s[j] # SLASH) => NameCount(s) = Rank(s, b)
         /\ b = Len(s) => NameCount(s) = Rank(s, b) - 1
<1> DEFINE B == {j \in Slashes(s) : j <= b}
           E == {j \in Slashes(s) : j < Len(s)}
<1>1. IsFiniteSet(B) /\ Rank(s, b) = Cardinality(B) /\ Cardinality(B) \in Nat
  BY UpToFinite DEF Rank
<1>2. /\ Slashes(s) = {k \in 1..Len(s) : s[k] = SLASH} /\ Len(s) \in Nat
      /\ IsFiniteSet(Slashes(s)) /\ b \in 1..Len(s)
  BY SlashesAre
<1>3. E \in SUBSET Slashes(s)
  OBVIOUS
<1>4. IsFiniteSet(E) /\ Cardinality(E) \in Nat /\ NameCount(s) = Cardinality(E)
  <2>1. IsFiniteSet(E)
    <3> HIDE DEF E
    <3> QED  BY <1>2, <1>3, FS_Subset
  <2> QED  BY <2>1, FS_CardinalityType DEF NameCount
<1>5. b \in B /\ B \ {b} \in SUBSET E
  BY <1>2
<1>6. IsFiniteSet(B \ {b}) /\ Cardinality(B \ {b}) = Cardinality(B) - 1
  <2> HIDE DEF B, E
  <2> QED  BY <1>1, <1>5, FS_RemoveElement
<1>7. Cardinality(B \ {b}) <= Cardinality(E)
  <2> HIDE DEF B, E
  <2> QED  BY <1>4, <1>5, FS_Subset
<1>8. ASSUME b < Len(s) PROVE Cardinality(B) <= Cardinality(E)
  <2>1. B \in SUBSET E
    BY <1>2, <1>8
  <2> HIDE DEF B, E
  <2> QED  BY <1>4, <2>1, FS_Subset
<1>9. ASSUME b < Len(s), \A j \in b + 1..Len(s) - 1 : s[j] # SLASH PROVE E = B
  BY <1>2, <1>9
<1>10. ASSUME b = Len(s) PROVE E = B \ {b}
  BY <1>2, <1>10
<1> HIDE DEF B, E
<1> QED  BY <1>1, <1>4, <1>6, <1>7, <1>8, <1>9, <1>10

\* The name behind a slash.
LEMMA NameIs ==
  ASSUME NEW s \in Seq(Chars), NEW b \in Slashes(s), b < Len(s), NEW e \in b..Len(s),
         e = Len(s) \/ s[e + 1] = SLASH, \A j \in b + 1..e : s[j] # SLASH
  PROVE  /\ Rank(s, b) \in DOMAIN NamesOf(s)
         /\ NamesOf(s)[Rank(s, b)] = SubSeq(s, b + 1, e)
         /\ SubSeq(s, b + 1, e) \in Seq(Chars) /\ Len(SubSeq(s, b + 1, e)) = e - b
         /\ \A j \in 1..e - b : SubSeq(s, b + 1, e)[j] = s[b + j]
<1>1. /\ Slashes(s) = {k \in 1..Len(s) : s[k] = SLASH} /\ Len(s) \in Nat
      /\ b \in 1..Len(s) /\ e \in Nat /\ b <= e
  BY SlashesAre
<1>2. NameEnd(s, b) = e
  <2> DEFINE good(x) == /\ x = Len(s) \/ s[x + 1] = SLASH
                        /\ \A j \in b + 1..x : s[j] # SLASH
  <2>1. ASSUME NEW x \in b..Len(s), good(x) PROVE x = e
    <3>1. CASE x < e
      <4>1. x + 1 \in b + 1..e /\ x # Len(s)
        BY <1>1, <3>1
      <4> QED  BY <2>1, <4>1
    <3>2. CASE e < x
      <4>1. e + 1 \in b + 1..x /\ e # Len(s)
        BY <1>1, <3>2
      <4> QED  BY <2>1, <4>1
    <3> QED  BY <1>1, <3>1, <3>2
  <2>2. good(e)
    OBVIOUS
  <2> HIDE DEF good
  <2>3. (CHOOSE x \in b..Len(s) : good(x)) = e
    BY <2>1, <2>2
  <2> QED  BY <2>3 DEF NameEnd, good
<1>3. NamesOf(s) = [n \in 1..NameCount(s) |->
                      SubSeq(s, SlashNumber(s, n) + 1, NameEnd(s, SlashNumber(s, n)))]
  BY DEF NamesOf, NameCount
<1>4. Rank(s, b) \in 1..NameCount(s)
  <2>1. Rank(s, b) \in Nat /\ Rank(s, b) <= NameCount(s) /\ NameCount(s) \in Nat
    BY CountIs, UpToFinite
  <2>2. Rank(s, b) # 0
    <3>1. IsFiniteSet({j \in Slashes(s) : j <= b})
      BY UpToFinite
    <3>2. b \in {j \in Slashes(s) : j <= b}
      BY <1>1
    <3> QED  BY <3>1, <3>2, FS_EmptySet DEF Rank
  <2> QED  BY <2>1, <2>2
<1>5. SlashNumber(s, Rank(s, b)) = b
  BY NumberOfSlash
<1>6. NamesOf(s)[Rank(s, b)] = SubSeq(s, b + 1, e)
  BY <1>2, <1>3, <1>4, <1>5
<1>7. /\ SubSeq(s, b + 1, e) \in Seq(Chars)
      /\ Len(SubSeq(s, b + 1, e)) = IF b + 1 <= e THEN e - (b + 1) + 1 ELSE 0
      /\ \A j \in 1..e - (b + 1) + 1 : SubSeq(s, b + 1, e)[j] = s[b + 1 + j - 1]
  <2>1. \A j \in b + 1..e : s[j] \in Chars
    BY <1>1
  <2>2. b + 1 \in Int /\ e \in Int
    BY <1>1
  <2> QED  BY <2>1, <2>2, SubSeqProperties
<1>8. Len(SubSeq(s, b + 1, e)) = e - b
  BY <1>1, <1>7
<1>9. ASSUME NEW j \in 1..e - b PROVE SubSeq(s, b + 1, e)[j] = s[b + j]
  <2>1. j \in 1..e - (b + 1) + 1 /\ b + 1 + j - 1 = b + j
    BY <1>1
  <2> QED  BY <1>7, <2>1
<1> QED  BY <1>3, <1>4, <1>6, <1>7, <1>8, <1>9

\* There is one behind each slash but one at the end.
LEMMA EndExists ==
  ASSUME NEW s \in Seq(Chars), NEW b \in Slashes(s), b < Len(s)
  PROVE  \E e \in b..Len(s) : /\ e = Len(s) \/ s[e + 1] = SLASH
                              /\ \A j \in b + 1..e : s[j] # SLASH
<1> DEFINE T == {e \in b..Len(s) : e = Len(s) \/ s[e + 1] = SLASH}
<1>1. Len(s) \in Nat /\ b \in 1..Len(s)
  BY SlashesAre
<1>2. T \subseteq Nat /\ Len(s) \in T
  BY <1>1
<1>3. PICK e \in T : \A x \in T : e <= x
  <2> HIDE DEF T
  <2>1. T # {}
    BY <1>2
  <2> QED  BY <1>2, <2>1, LeastOne
<1>4. ASSUME NEW j \in b + 1..e, s[j] = SLASH PROVE FALSE
  <2>1. j - 1 \in T /\ j - 1 < e
    BY <1>1, <1>3, <1>4
  <2> QED  BY <1>3, <2>1
<1> QED  BY <1>3, <1>4
-----------------------------------------------------------------------------
\* create_path.

\* The slash behind which the component begins.
Behind == next - Len(component) - 1

ParseTypes ==
    /\ in \in Seq(Chars) /\ Len(in) # 0 /\ in[1] = SLASH
    /\ depth \in Nat
    /\ state \in {"loop", "done"}
    /\ component \in Seq(Chars) /\ components \in Seq(Seq(Chars))
    /\ Len(component) <= MAX_NAME
    /\ highest \in Int /\ highest <= MAX_NAME
    /\ next \in 2..Len(in) + 1

\* The components are the names up to a slash, the component is what is read of the one
\* behind it.
Split ==
    AllShort(in) /\ state = "loop" =>
        /\ Behind \in 1..Len(in) /\ in[Behind] = SLASH
        /\ \A j \in Behind + 1..next - 1 : in[j] # SLASH
        /\ \A j \in 1..Len(component) : component[j] = in[Behind + j]
        /\ Rank(in, Behind) = Len(components) + 1
        /\ Len(components) <= depth
        /\ Len(components) = depth => component = <<>>
        /\ \A n \in 1..Len(components) : components[n] = NamesOf(in)[n]

ParseInv == ParseTypes /\ Split /\ Parsed

LEMMA EmptyComponents ==
  /\ <<>> \in Seq(Chars) /\ Len(<<>>) = 0 /\ <<>> \in Seq(Seq(Chars))
  /\ \A x \in Seq(Chars) : Len(x) = 0 => x = <<>>
<1>1. <<>> \in Seq(Chars) /\ Len(<<>>) = 0 /\ <<>> \in Seq(Seq(Chars))
  OBVIOUS
<1>2. ASSUME NEW x \in Seq(Chars), Len(x) = 0 PROVE x = <<>>
  BY <1>2, EmptySeq
<1> QED  BY <1>1, <1>2

\* A sequence with as many elements as names asked for and all alike is what is due.
LEMMA NamesGiven ==
  ASSUME NEW s \in Seq(Chars), NameCount(s) \in Nat, NEW c \in Seq(Seq(Chars)), NEW d \in Nat,
         Len(c) = IF d < NameCount(s) THEN d ELSE NameCount(s),
         \A n \in 1..Len(c) : c[n] = NamesOf(s)[n]
  PROVE  c = SubSeq(NamesOf(s), 1, IF d < Len(NamesOf(s)) THEN d ELSE Len(NamesOf(s)))
<1> DEFINE m == Len(c)
           names == NamesOf(s)
<1>1. Len(names) = NameCount(s)
  <2> DEFINE name(n) == SubSeq(s, SlashNumber(s, n) + 1, NameEnd(s, SlashNumber(s, n)))
             V == {name(n) : n \in 1..NameCount(s)}
  <2>1. names = [n \in 1..NameCount(s) |-> name(n)]
    BY DEF NamesOf, NameCount
  <2>2. \A n \in 1..NameCount(s) : name(n) \in V
    OBVIOUS
  <2> HIDE DEF name, V, names
  <2>3. names \in [1..NameCount(s) -> V]
    BY <2>1, <2>2
  <2> QED  BY <2>3
<1>2. m \in Nat /\ \A n \in 1..m : c[n] \in Seq(Chars)
  OBVIOUS
<1> HIDE DEF names
<1>3. \A n \in 1..m : names[n] \in Seq(Chars)
  BY <1>2 DEF names
<1> DEFINE t == SubSeq(names, 1, m)
<1>4. /\ t \in Seq(Seq(Chars)) /\ Len(t) = IF 1 <= m THEN m - 1 + 1 ELSE 0
      /\ \A n \in 1..m - 1 + 1 : t[n] = names[1 + n - 1]
  <2>1. 1 \in Int /\ m \in Int
    BY <1>2
  <2> HIDE DEF m, t
  <2> QED  BY <1>3, <2>1, SubSeqProperties DEF t
<1>5. Len(t) = Len(c) /\ \A n \in 1..Len(t) : t[n] = c[n]
  <2>1. Len(t) = m
    BY <1>2, <1>4
  <2>2. ASSUME NEW n \in 1..m PROVE t[n] = c[n]
    <3>1. n \in 1..m - 1 + 1 /\ 1 + n - 1 = n
      BY <1>2
    <3>2. t[n] = names[n]
      BY <1>4, <3>1
    <3> QED  BY <3>2 DEF names
  <2> QED  BY <2>1, <2>2
<1>6. t = c
  <2> HIDE DEF t
  <2> QED  BY <1>4, <1>5, SeqEqual
<1> QED  BY <1>1, <1>6 DEF names

LEMMA ParseBegins ==
  ASSUME ParseInit
  PROVE  ParseInv
<1>1. /\ in \in Seq(Chars) /\ Len(in) \in Nat /\ Len(in) # 0 /\ in[1] = SLASH
  <2>1. PICK l \in 0..LengthBound - 1 : \E s \in [1..l -> Chars] : in = <<SLASH>> \o s
    BY DEF ParseInit, Input, Chars
  <2>2. PICK s \in [1..l -> Chars] : in = <<SLASH>> \o s
    BY <2>1
  <2>3. s \in Seq(Chars) /\ <<SLASH>> \in Seq(Chars)
    BY <2>1 DEF Chars
  <2>4. /\ <<SLASH>> \o s \in Seq(Chars) /\ Len(<<SLASH>> \o s) = 1 + Len(s)
        /\ (<<SLASH>> \o s)[1] = SLASH
    BY <2>3
  <2> QED  BY <2>2, <2>3, <2>4
<1>2. /\ depth \in Nat /\ next = 2 /\ component = <<>> /\ components = <<>> /\ highest = -1
      /\ state = IF Len(in) = 1 THEN "done" ELSE "loop"
  BY PathsAssumption DEF ParseInit
<1>3. /\ component \in Seq(Chars) /\ components \in Seq(Seq(Chars))
      /\ Len(component) = 0 /\ Len(components) = 0
  BY <1>2, EmptyComponents, Zenon
<1>4. ParseTypes
  BY <1>1, <1>2, <1>3, PathsAssumption DEF ParseTypes
<1>5. Behind = 1
  BY <1>2, <1>3 DEF Behind
<1>6. 1 \in Slashes(in) /\ Rank(in, 1) = 1
  <2>1. Slashes(in) = {k \in 1..Len(in) : in[k] = SLASH}
    BY <1>1, SlashesAre
  <2>2. {j \in Slashes(in) : j <= 1} = {1}
    BY <1>1, <2>1
  <2>3. Cardinality({1}) = 1
    BY FS_Singleton
  <2> QED  BY <1>1, <2>1, <2>2, <2>3 DEF Rank
<1>7. Split
  <2>1. \A j \in Behind + 1..next - 1 : in[j] # SLASH
    BY <1>2, <1>5
  <2>2. Rank(in, Behind) = Len(components) + 1
    BY <1>3, <1>5, <1>6
  <2> QED  BY <1>1, <1>2, <1>3, <1>5, <2>1, <2>2 DEF Split
<1>8. Parsed
  <2> SUFFICES ASSUME state = "done"
               PROVE  components = SubSeq(NamesOf(in), 1, IF depth < Len(NamesOf(in)) THEN depth ELSE Len(NamesOf(in)))
    BY DEF Parsed
  <2>1. Len(in) = 1
    BY <1>2
  <2>2. NameCount(in) = 0
    <3>1. \A b \in Slashes(in) : b = Len(in) => NameCount(in) = Rank(in, b) - 1
      BY <1>1, CountIs
    <3> QED  BY <1>6, <2>1, <3>1
  <2>3. /\ Len(components) = IF depth < NameCount(in) THEN depth ELSE NameCount(in)
        /\ \A n \in 1..Len(components) : components[n] = NamesOf(in)[n]
    BY <1>2, <1>3, <2>2
  <2>4. in \in Seq(Chars) /\ components \in Seq(Seq(Chars)) /\ depth \in Nat /\ NameCount(in) \in Nat
    BY <1>1, <1>2, <1>3, <2>2
  <2> QED  BY <2>3, <2>4, NamesGiven
<1> QED  BY <1>4, <1>7, <1>8 DEF ParseInv

\* A component grows while no slash comes.
LEMMA CollectKeeps ==
  ASSUME ParseInv, Collect
  PROVE  ParseInv'
<1>1. /\ state = "loop" /\ next <= Len(in) /\ Len(components) < depth
      /\ in[next] # SLASH /\ ~(Len(component) >= MAX_NAME)
      /\ component' = Append(component, in[next]) /\ next' = next + 1
      /\ highest' = MaxOf(highest, Len(component))
      /\ in' = in /\ depth' = depth /\ components' = components /\ state' = state
  BY DEF Collect, Going, Full
<1>2. /\ in \in Seq(Chars) /\ Len(in) \in Nat /\ next \in 2..Len(in) /\ depth \in Nat
      /\ component \in Seq(Chars) /\ Len(component) \in Nat /\ highest \in Int
      /\ components \in Seq(Seq(Chars)) /\ Len(components) \in Nat
      /\ highest <= MAX_NAME /\ MAX_NAME \in Nat
  BY <1>1, PathsAssumption DEF ParseInv, ParseTypes
<1>3. /\ component' \in Seq(Chars) /\ Len(component') = Len(component) + 1
      /\ \A j \in 1..Len(component) : component'[j] = component[j]
      /\ component'[Len(component) + 1] = in[next]
  BY <1>1, <1>2
<1>4. ParseTypes'
  BY <1>1, <1>2, <1>3 DEF ParseInv, ParseTypes, MaxOf
<1>5. Behind' = Behind
  BY <1>1, <1>2, <1>3 DEF Behind
<1>6. Split'
  <2> SUFFICES ASSUME AllShort(in)
               PROVE  /\ Behind \in 1..Len(in) /\ in[Behind] = SLASH
                      /\ \A j \in Behind + 1..next : in[j] # SLASH
                      /\ \A j \in 1..Len(component) + 1 : component'[j] = in[Behind + j]
                      /\ Rank(in, Behind) = Len(components) + 1
                      /\ Len(components) < depth
                      /\ \A n \in 1..Len(components) : components[n] = NamesOf(in)[n]
    BY <1>1, <1>2, <1>3, <1>5 DEF Split
  <2>1. /\ Behind \in 1..Len(in) /\ in[Behind] = SLASH
        /\ \A j \in Behind + 1..next - 1 : in[j] # SLASH
        /\ \A j \in 1..Len(component) : component[j] = in[Behind + j]
        /\ Rank(in, Behind) = Len(components) + 1
        /\ \A n \in 1..Len(components) : components[n] = NamesOf(in)[n]
    BY <1>1 DEF ParseInv, Split
  <2>2. \A j \in Behind + 1..next : in[j] # SLASH
    BY <1>1, <1>2, <2>1
  <2>3. \A j \in 1..Len(component) + 1 : component'[j] = in[Behind + j]
    <3>1. Behind + (Len(component) + 1) = next
      BY <1>2 DEF Behind
    <3>2. \A j \in 1..Len(component) + 1 : j \in 1..Len(component) \/ j = Len(component) + 1
      BY <1>2
    <3> QED  BY <1>3, <2>1, <3>1, <3>2
  <2> QED  BY <1>1, <2>1, <2>2, <2>3
<1>7. Parsed'
  BY <1>1 DEF Parsed
<1> QED  BY <1>4, <1>6, <1>7 DEF ParseInv

\* What the component is when it ends: at a slash, or at the string's end.
LEMMA ComponentIs ==
  ASSUME ParseInv, AllShort(in), state = "loop", Behind < Len(in),
         next = Len(in) + 1 \/ in[next] = SLASH
  PROVE  /\ Rank(in, Behind) = Len(components) + 1
         /\ component = NamesOf(in)[Len(components) + 1]
<1>1. /\ in \in Seq(Chars) /\ Len(in) \in Nat /\ next \in 2..Len(in) + 1
      /\ component \in Seq(Chars) /\ Len(component) \in Nat
  BY DEF ParseInv, ParseTypes
<1>2. /\ Behind \in 1..Len(in) /\ in[Behind] = SLASH
      /\ \A j \in Behind + 1..next - 1 : in[j] # SLASH
      /\ \A j \in 1..Len(component) : component[j] = in[Behind + j]
      /\ Rank(in, Behind) = Len(components) + 1
  BY DEF ParseInv, Split
<1>3. Behind \in Slashes(in)
  BY <1>1, <1>2, SlashesAre
<1> DEFINE e == next - 1
           b == Behind
<1>4. e \in b..Len(in) /\ (e = Len(in) \/ in[e + 1] = SLASH) /\ Len(component) = e - b
  BY <1>1, <1>2 DEF Behind
<1> DEFINE t == SubSeq(in, b + 1, e)
<1>5. /\ NamesOf(in)[Rank(in, b)] = t /\ t \in Seq(Chars) /\ Len(t) = e - b
      /\ \A j \in 1..e - b : t[j] = in[b + j]
  <2>1. b \in Slashes(in) /\ b < Len(in) /\ \A j \in b + 1..e : in[j] # SLASH
    BY <1>2, <1>3
  <2> HIDE DEF b, e
  <2> QED  BY <1>1, <1>4, <2>1, NameIs
<1> HIDE DEF b, e, t
<1>6. t = component
  <2>1. Len(t) = Len(component) /\ \A j \in 1..Len(t) : t[j] = component[j]
    BY <1>2, <1>4, <1>5 DEF b
  <2> QED  BY <1>1, <1>5, <2>1, SeqEqual
<1> QED  BY <1>2, <1>5, <1>6 DEF b

\* A component is full before its name ends only where a name is too long.
LEMMA FullIsLong ==
  ASSUME ParseInv, Going, in[next] # SLASH, Full
  PROVE  ~AllShort(in)
<1> SUFFICES ASSUME AllShort(in) PROVE FALSE
  OBVIOUS
<1>1. /\ in \in Seq(Chars) /\ Len(in) \in Nat /\ next \in 2..Len(in) /\ state = "loop"
      /\ component \in Seq(Chars) /\ Len(component) \in Nat /\ Len(component) >= MAX_NAME
      /\ MAX_NAME \in Nat
  BY PathsAssumption DEF ParseInv, ParseTypes, Going, Full
<1>2. /\ Behind \in 1..Len(in) /\ in[Behind] = SLASH
      /\ \A j \in Behind + 1..next - 1 : in[j] # SLASH
  BY <1>1 DEF ParseInv, Split
<1> DEFINE b == Behind
<1>3. b \in Slashes(in) /\ b \in Nat /\ b < Len(in) /\ next = b + Len(component) + 1
  BY <1>1, <1>2, SlashesAre DEF Behind
<1> HIDE DEF b
<1>4. PICK e \in b..Len(in) : /\ e = Len(in) \/ in[e + 1] = SLASH
                              /\ \A j \in b + 1..e : in[j] # SLASH
  BY <1>1, <1>3, EndExists
<1>5. e >= next
  <2> SUFFICES ASSUME e < next PROVE FALSE
    BY <1>1, <1>3, <1>4
  <2>1. e # Len(in) /\ in[e + 1] = SLASH
    BY <1>1, <1>3, <1>4
  <2>2. e + 1 = next \/ e + 1 \in b + 1..next - 1
    BY <1>1, <1>3, <1>4
  <2> QED  BY <1>2, <2>1, <2>2 DEF b
<1>6. /\ Rank(in, b) \in DOMAIN NamesOf(in)
      /\ NamesOf(in)[Rank(in, b)] = SubSeq(in, b + 1, e)
      /\ Len(SubSeq(in, b + 1, e)) = e - b
  BY <1>1, <1>3, <1>4, NameIs
<1>7. e - b <= MAX_NAME
  BY <1>6 DEF AllShort
<1> QED  BY <1>1, <1>3, <1>4, <1>5, <1>7

LEMMA SeparateKeeps ==
  ASSUME ParseInv, Separate
  PROVE  ParseInv'
<1>1. /\ Going /\ state = "loop" /\ next <= Len(in) /\ Len(components) < depth
      /\ in[next] = SLASH \/ Full
      /\ components' = Append(components, component) /\ component' = <<>>
      /\ next' = next + 1 /\ highest' = MaxOf(highest, Len(component))
      /\ in' = in /\ depth' = depth /\ state' = state
  BY DEF Separate, Going, EndComponent
<1>2. /\ in \in Seq(Chars) /\ Len(in) \in Nat /\ next \in 2..Len(in) /\ depth \in Nat
      /\ component \in Seq(Chars) /\ Len(component) \in Nat /\ highest \in Int
      /\ components \in Seq(Seq(Chars)) /\ Len(components) \in Nat
      /\ highest <= MAX_NAME /\ Len(component) <= MAX_NAME /\ MAX_NAME \in Nat
  BY <1>1, PathsAssumption DEF ParseInv, ParseTypes
<1>3. component' \in Seq(Chars) /\ Len(component') = 0
  BY <1>1, EmptyComponents, Zenon
<1>4. /\ components' \in Seq(Seq(Chars)) /\ Len(components') = Len(components) + 1
      /\ \A n \in 1..Len(components) : components'[n] = components[n]
      /\ components'[Len(components) + 1] = component
  BY <1>1, <1>2
<1>5. ParseTypes'
  BY <1>1, <1>2, <1>3, <1>4 DEF ParseInv, ParseTypes, MaxOf
<1>6. Behind' = next
  BY <1>1, <1>2, <1>3 DEF Behind
<1>7. Split'
  <2> SUFFICES ASSUME AllShort(in)
               PROVE  /\ next \in 1..Len(in) /\ in[next] = SLASH
                      /\ Rank(in, next) = Len(components) + 2
                      /\ \A n \in 1..Len(components) + 1 : components'[n] = NamesOf(in)[n]
    <3>1. \A j \in next + 1..next : in[j] # SLASH
      BY <1>2
    <3>2. component' = <<>>
      BY <1>1
    <3> QED  BY <1>1, <1>2, <1>3, <1>4, <1>6, <3>1, <3>2 DEF Split
  <2>1. in[next] = SLASH
    BY <1>1, FullIsLong
  <2>2. /\ Behind \in 1..Len(in) /\ in[Behind] = SLASH
        /\ \A j \in Behind + 1..next - 1 : in[j] # SLASH
        /\ \A n \in 1..Len(components) : components[n] = NamesOf(in)[n]
    BY <1>1 DEF ParseInv, Split
  <2>3. Behind < next
    BY <1>2, <2>2 DEF Behind
  <2>4. /\ Rank(in, Behind) = Len(components) + 1
        /\ component = NamesOf(in)[Len(components) + 1]
    BY <1>1, <1>2, <2>1, <2>2, <2>3, ComponentIs
  <2>5. Rank(in, next) = Rank(in, Behind) + 1
    <3>1. Slashes(in) = {k \in 1..Len(in) : in[k] = SLASH}
      BY <1>2, SlashesAre
    <3>2. Behind \in Slashes(in) /\ next \in Slashes(in)
      BY <1>2, <2>1, <2>2, <3>1
    <3> QED  BY <1>2, <2>2, <2>3, <3>2, RankNext
  <2>6. \A n \in 1..Len(components) + 1 : components'[n] = NamesOf(in)[n]
    <3>1. \A n \in 1..Len(components) + 1 : n \in 1..Len(components) \/ n = Len(components) + 1
      BY <1>2
    <3> QED  BY <1>4, <2>2, <2>4, <3>1
  <2>7. Len(components) + 1 + 1 = Len(components) + 2 /\ next \in 1..Len(in)
    BY <1>2
  <2> QED  BY <2>1, <2>4, <2>5, <2>6, <2>7
<1>8. Parsed'
  BY <1>1 DEF Parsed
<1> QED  BY <1>5, <1>7, <1>8 DEF ParseInv

LEMMA FinishKeeps ==
  ASSUME ParseInv, Finish
  PROVE  ParseInv'
<1>1. /\ state = "loop" /\ (next > Len(in) \/ ~(Len(components) < depth))
      /\ state' = "done" /\ in' = in /\ depth' = depth /\ next' = next
  <2>1. next \in Int /\ Len(in) \in Int
    BY DEF ParseInv, ParseTypes
  <2> QED  BY <2>1 DEF Finish, Going
<1>2. \/ /\ component # <<>> /\ components' = Append(components, component)
         /\ highest' = MaxOf(highest, Len(component)) /\ component' = <<>>
      \/ component = <<>> /\ component' = component /\ components' = components /\ highest' = highest
  BY DEF Finish, EndComponent
<1>3. /\ in \in Seq(Chars) /\ Len(in) \in Nat /\ next \in 2..Len(in) + 1 /\ depth \in Nat
      /\ component \in Seq(Chars) /\ Len(component) \in Nat /\ highest \in Int
      /\ components \in Seq(Seq(Chars)) /\ Len(components) \in Nat
      /\ highest <= MAX_NAME /\ Len(component) <= MAX_NAME /\ MAX_NAME \in Nat
  BY PathsAssumption DEF ParseInv, ParseTypes
<1>4. component' \in Seq(Chars) /\ Len(component') = 0
  BY <1>2, EmptyComponents, Zenon
<1>5. /\ components' \in Seq(Seq(Chars)) /\ Len(components') \in Nat
      /\ component # <<>> => /\ Len(components') = Len(components) + 1
                             /\ \A n \in 1..Len(components) : components'[n] = components[n]
                             /\ components'[Len(components) + 1] = component
      /\ component = <<>> => components' = components
  <2>1. CASE component # <<>>
    <3>1. components' = Append(components, component)
      BY <1>2, <2>1
    <3> QED  BY <1>3, <2>1, <3>1
  <2>2. CASE component = <<>>
    BY <1>2, <1>3, <2>2
  <2> QED  BY <2>1, <2>2
<1>6. highest' \in Int /\ highest' <= MAX_NAME
  BY <1>2, <1>3 DEF MaxOf
<1>7. ParseTypes'
  <2>1. Len(in) # 0 /\ in[1] = SLASH
    BY DEF ParseInv, ParseTypes
  <2>2. Len(component') <= MAX_NAME
    BY <1>3, <1>4
  <2> QED  BY <1>1, <1>3, <1>4, <1>5, <1>6, <2>1, <2>2 DEF ParseTypes
<1>8. Split'
  BY <1>1 DEF Split
<1>9. Parsed'
  <2> SUFFICES ASSUME AllShort(in)
               PROVE  components' = SubSeq(NamesOf(in), 1,
                                           IF depth < Len(NamesOf(in)) THEN depth ELSE Len(NamesOf(in)))
    BY <1>1 DEF Parsed, AllShort
  <2>1. /\ Behind \in 1..Len(in) /\ in[Behind] = SLASH
        /\ \A j \in Behind + 1..next - 1 : in[j] # SLASH
        /\ Rank(in, Behind) = Len(components) + 1
        /\ Len(components) <= depth
        /\ Len(components) = depth => component = <<>>
        /\ \A n \in 1..Len(components) : components[n] = NamesOf(in)[n]
    BY <1>1 DEF ParseInv, Split
  <2> DEFINE b == Behind
             count == NameCount(in)
  <2>2. b \in Slashes(in)
    BY <1>3, <2>1, SlashesAre
  <2>3. /\ count \in Nat
        /\ Rank(in, b) - 1 <= count
        /\ b < Len(in) /\ (\A j \in b + 1..Len(in) - 1 : in[j] # SLASH) => count = Rank(in, b)
        /\ b = Len(in) => count = Rank(in, b) - 1
    BY <1>3, <2>2, CountIs
  <2>4. /\ Len(components') = IF depth < count THEN depth ELSE count
        /\ \A n \in 1..Len(components') : components'[n] = NamesOf(in)[n]
    <3>1. CASE component # <<>>
      <4>1. Len(component) # 0
        BY <1>3, <3>1, EmptyComponents
      <4>2. Len(components) < depth /\ next = Len(in) + 1
        <5>1. Len(components) # depth /\ Len(components) <= depth
          BY <2>1, <3>1, Zenon
        <5>2. next > Len(in) \/ ~(Len(components) < depth)
          BY <1>1
        <5> QED  BY <1>3, <5>1, <5>2
      <4>3. b < Len(in)
        BY <1>3, <4>1, <4>2 DEF Behind
      <4>4. \A j \in b + 1..Len(in) - 1 : in[j] # SLASH
        <5>1. \A j \in b + 1..next - 1 : in[j] # SLASH
          BY <2>1
        <5>2. b \in Int /\ next - 1 = Len(in)
          BY <1>3, <2>1, <4>2
        <5> HIDE DEF b
        <5> QED  BY <1>3, <5>1, <5>2
      <4>5. count = Len(components) + 1
        <5> HIDE DEF count
        <5> QED  BY <2>1, <2>3, <4>3, <4>4
      <4>6. component = NamesOf(in)[Len(components) + 1]
        BY <1>1, <4>2, <4>3, ComponentIs
      <4>7. \A n \in 1..Len(components) + 1 : n \in 1..Len(components) \/ n = Len(components) + 1
        BY <1>3
      <4>8. \A n \in 1..Len(components) + 1 : components'[n] = NamesOf(in)[n]
        BY <1>5, <2>1, <3>1, <4>6, <4>7
      <4>9. Len(components') = Len(components) + 1
        BY <1>5, <3>1
      <4>10. Len(components) \in Nat /\ depth \in Nat
        BY <1>3
      <4> HIDE DEF count, b
      <4> QED  BY <4>2, <4>5, <4>8, <4>9, <4>10
    <3>2. CASE component = <<>>
      <4>1. Len(component) = 0
        BY <3>2, EmptyComponents, Zenon
      <4>2. Len(components) = depth \/ (next = Len(in) + 1 /\ b = Len(in))
        BY <1>1, <1>3, <2>1, <4>1 DEF Behind
      <4>3. Len(components) <= count
        <5> HIDE DEF count, b
        <5> QED  BY <1>3, <2>1, <2>3 DEF b
      <4>4. Len(components) = IF depth < count THEN depth ELSE count
        <5> HIDE DEF count, b
        <5> QED  BY <1>3, <2>1, <2>3, <4>2, <4>3 DEF b
      <4>5. components' = components
        BY <1>5, <3>2
      <4> HIDE DEF count, b
      <4> QED  BY <2>1, <4>4, <4>5
    <3> QED  BY <3>1, <3>2
  <2> HIDE DEF b
  <2> QED  BY <1>3, <1>5, <2>3, <2>4, NamesGiven
<1> QED  BY <1>7, <1>8, <1>9 DEF ParseInv

LEMMA ParseKept == ParseSpec => []ParseInv
<1>1. ParseInit => ParseInv
  BY ParseBegins
<1>2. ParseInv /\ [ParseNext]_parseVars => ParseInv'
  <2> SUFFICES ASSUME ParseInv, [ParseNext]_parseVars PROVE ParseInv'
    OBVIOUS
  <2>1. CASE Separate
    BY <2>1, SeparateKeeps
  <2>2. CASE Collect
    BY <2>2, CollectKeeps
  <2>3. CASE Finish
    BY <2>3, FinishKeeps
  <2>4. CASE UNCHANGED parseVars
    BY <2>4 DEF parseVars, ParseInv, ParseTypes, Split, Parsed, Behind
  <2> QED  BY <2>1, <2>2, <2>3, <2>4 DEF ParseNext
<1> QED  BY <1>1, <1>2, PTL DEF ParseSpec

\* create_path: whatever the string and the lengths, when no name is longer than a
\* buffer the components are its names in order, as many as were asked for.
THEOREM PathsAreParsed == ParseSpec => []Parsed
<1>1. ParseInv => Parsed
  BY DEF ParseInv
<1> QED  BY <1>1, ParseKept, PTL

\* No write of create_path leaves the block that malloc gave it.
THEOREM NamesStayInBlock == ParseSpec => []StaysInBlock
<1>1. ParseInv => StaysInBlock
  <2> SUFFICES ASSUME ParseInv PROVE StaysInBlock
    OBVIOUS
  <2>1. \A m, a \in Nat \ {0} : (m % a) # 0 =>
          m < ((m + a - 1) \div a) * a /\ ((m + a - 1) \div a) * a \in Int
    <3> SUFFICES ASSUME NEW m \in Nat \ {0}, NEW a \in Nat \ {0}, (m % a) # 0
                 PROVE  m < ((m + a - 1) \div a) * a /\ ((m + a - 1) \div a) * a \in Int
      OBVIOUS
    <3> DEFINE q == (m + a - 1) \div a
    <3>1. /\ q \in Int /\ m + a - 1 = a * q + ((m + a - 1) % a)
          /\ (m + a - 1) % a \in 0..a - 1
      OBVIOUS
    <3>2. q * a = a * q /\ a * q \in Int
      BY <3>1
    <3>3. m # a * q
      <4> SUFFICES ASSUME m = a * q PROVE FALSE
        OBVIOUS
      <4>1. \A x \in Nat : (a * x) % a = 0
        OBVIOUS
      <4> HIDE DEF q
      <4> QED  BY <3>1, <4>1
    <3> HIDE DEF q
    <3>4. m < q * a /\ q * a \in Int
      BY <3>1, <3>2, <3>3
    <3> QED  BY <3>4 DEF q
  <2>2. /\ MAX_NAME \in Nat \ {0} /\ ALIGN \in Nat \ {0} /\ (MAX_NAME % ALIGN) # 0
        /\ highest \in Int /\ highest <= MAX_NAME
    BY PathsAssumption DEF ParseInv, ParseTypes
  <2> DEFINE size == ((MAX_NAME + ALIGN - 1) \div ALIGN) * ALIGN
  <2>3. MAX_NAME < size /\ size \in Int
    <3>1. \A m, a \in Nat \ {0} : (m % a) # 0 => m < ((m + a - 1) \div a) * a
      BY <2>1
    <3>2. \A m, a \in Nat \ {0} : (m % a) # 0 => ((m + a - 1) \div a) * a \in Int
      BY <2>1
    <3> QED  BY <2>2, <3>1, <3>2
  <2> HIDE DEF size
  <2>4. highest < size
    BY <2>2, <2>3
  <2> QED  BY <2>4 DEF StaysInBlock, size
<1> QED  BY <1>1, ParseKept, PTL
=============================================================================
