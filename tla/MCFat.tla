-------------------------------- MODULE MCFat --------------------------------
(***************************************************************************)
(* Fat on volumes of five clusters of two sectors of two cells, one sector   *)
(* into the disk.  A directory's cluster has four entries: with a deleted    *)
(* entry, a label or a long name in it, a root directory is soon full.       *)
(***************************************************************************)
EXTENDS Fat

MCPartition == [type_guid |-> "other", start_sector |-> 1]
\* Only DeviceSpec, which Fat does not use, looks at it.
MCContent == {}

\* 2000-02-29 is the only date of a leap year.
Dates == [a |-> (2001 - 1980) * 512 + 3 * 32 + 1, z |-> (2000 - 1980) * 512 + 2 * 32 + 29]

F(name, attributes, first, size) ==
    [kind |-> "file", name |-> name, base |-> 3, extension |-> 0, attributes |-> attributes,
     first_cluster |-> first, size |-> size, date |-> Dates.a, time |-> 0]
L(part) == [kind |-> "lfn", part |-> part]
Deleted == [kind |-> "deleted"]

a == F(<<"a">>, {"ARCHIVE"}, 3, 6)
z == [F(<<"z">>, {"READ_ONLY"}, 0, 0) EXCEPT !.date = Dates.z]
d == F(<<"d">>, {"DIRECTORY"}, 4, 0)
bc == [F(<<"B~1">>, {"ARCHIVE"}, 4, 3) EXCEPT !.extension = 3]
label == F(<<"a">>, {"VOLUME_ID"}, 0, 0)
txt(name, base) == [F(name, {}, 0, 0) EXCEPT !.base = base, !.extension = 3]

\* Roots: the entries of cluster 2 and, in some, of cluster 5 behind it.  The third has
\* names that the driver cannot put together.
Roots == {
    <<<<a, Deleted, d>>>>,
    <<<<label, L("c"), L("b"), bc>>, <<z, a>>>>,
    <<<<a, txt(<<"t">>, 7), L("c"), L("b")>>, <<bc>>>>,
    <<<<Deleted, L("d"), d, z>>, <<Deleted, a>>>>}

Sub == <<F(<<".">>, {"DIRECTORY"}, 4, 0), F(<<"..">>, {"DIRECTORY"}, 0, 0), Deleted,
         txt(<<"a">>, 6)>>

HasD(root) == \E k \in DOMAIN root : \E n \in DOMAIN root[k] : root[k][n] = d

\* The size of the FAT is in either of two fields.
Bpb(small, large) == [sectors_per_cluster |-> 2, reserved_sectors |-> 1, fats |-> 2,
                      sectors_per_fat |-> small,
                      extended |-> [sectors_per_fat |-> large, root_cluster |-> 2]]

\* The file a goes from cluster 3 on to cluster 6.
Volume(root) ==
    [bpb |-> IF HasD(root) THEN Bpb(0, 4) ELSE Bpb(4, 0),
     fat |-> 0 :> EOC @@ 1 :> EOC @@ 2 :> (IF Len(root) = 2 THEN 5 ELSE EOC) @@ 3 :> 6
             @@ 4 :> EOC @@ 5 :> (IF Len(root) = 2 THEN EOC ELSE 0) @@ 6 :> EOC,
     entries |-> 2 :> root[1] @@ (IF Len(root) = 2 THEN 5 :> root[2] ELSE <<>>)
                 @@ (IF HasD(root) THEN 4 :> Sub ELSE <<>>),
     directories |-> {2} \cup (IF HasD(root) THEN {4} ELSE {})]

MCVolumes == {Volume(root) : root \in Roots}

MCPaths == {<<>>, <<<<"a">>>>, <<<<"d">>>>, <<<<"d">>, <<"a">>>>, <<<<"d">>, <<"..">>>>,
            <<<<"d">>, <<"..">>, <<"a">>>>, <<<<"d">>, <<".">>, <<"d">>>>, <<<<"b", "c">>>>,
            <<<<"b">>>>, <<<<"z">>, <<"a">>>>, <<<<"a">>, <<"a">>>>, <<<<"t">>>>}
=============================================================================
