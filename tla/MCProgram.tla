----------------------------- MODULE MCProgram -----------------------------
(***************************************************************************)
(* Program with pages of two addresses: files of one or two headers with    *)
(* segments of up to three addresses, parts of them in the file, aligned or *)
(* not, of pages left in one piece or scattered, enough of them or not.     *)
(***************************************************************************)
EXTENDS Program

Header(t, base, fsize, msize) ==
    [type |-> t, virtual_base |-> base, size_file |-> fsize, size_memory |-> msize]

MCHeaders == {h \in {Header(t, b, f, n) : t \in {"PT_LOAD"}, b \in {0, 1, 4}, f \in 0..3,
                                          n \in 0..3} : h.size_file <= h.size_memory}
                 \cup {Header("PT_NOTE", 0, 0, 0)}
MCFiles == {<<>>} \cup UNION {[1..n -> MCHeaders] : n \in 1..2}
MCPools == {1..6, {2, 4, 5, 6, 7}, {2, 3, 5}, {3}}
=============================================================================
