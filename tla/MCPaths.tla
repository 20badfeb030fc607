------------------------------ MODULE MCPaths ------------------------------
(***************************************************************************)
(* Paths with buffers of three characters in blocks of four: names that     *)
(* fit, that fit exactly and that are too long, empty names, and fewer      *)
(* components asked for than there are.                                     *)
(***************************************************************************)
EXTENDS Paths
=============================================================================
